---- MODULE Spec2Model ----
(***************************************************************************)
(* A model of the TOC generator of parsing_engine.py: rule matching        *)
(* (attrs_match, classify_heading), the numbering state machine of         *)
(* MarkupParser.generate_toc, tree / navigation / HTML construction and    *)
(* the writes issued to the host package (bk).                             *)
(*                                                                         *)
(* Text is modelled as a sequence of one-character strings, so that        *)
(* lower(), strip(), concatenation and pattern matching are computed.      *)
(***************************************************************************)
EXTENDS Integers, Sequences, FiniteSets, TLC

VARIABLES
    pc,             \* position of generate_toc
    rules,          \* self.rules (criteria["rules"])
    tags,           \* self.tags
    style,          \* self.style
    occurrences,    \* self.occurrences
    bkSpine,        \* host package: reading order (manifest ids)
    bkManifest,     \* host package: registered resources [id, href]
    bkContent,      \* host package: manifest id -> content
    opfManifest,    \* the package description has a manifest container
    opfSpine,       \* the package description has a spine container
    calls,          \* the writes issued to the host package, in order
    spine_files,    \* local: ids returned by getspine()
    root,           \* local: the package description parsed at the start
    scanned,        \* local: number of spine files read so far
    file_soups,     \* local: the parsed documents [fname, soup], in order
    all_raw_items,  \* local: matched headings in discovery order
    idx,            \* local: position of the numbering loop (1-based)
    context,        \* local: TOCContext
    toc_items,      \* local: numbered TOC records
    tree,           \* local: result of build_tree
    navpoints,      \* local: navPoint dictionaries built for the NCX
    ncx,            \* local: the navigation document (ncx_root)
    html,           \* local: the hyperlinks of the HTML TOC
    toc_id,         \* local: manifest id of the TOC page
    ret,            \* what generate_toc returned
    runs            \* the number of generate_toc calls made on the package

vars == <<pc, rules, tags, style, occurrences, bkSpine, bkManifest, bkContent,
          opfManifest, opfSpine, calls, spine_files, root, scanned, file_soups,
          all_raw_items, idx, context, toc_items, tree, navpoints, ncx, html,
          toc_id, ret, runs>>

-----------------------------------------------------------------------------
(* Text helpers (Python str methods) *)

\* Python None
None == <<"None">>

Upper == <<"A","B","C","D","E","F","G","H","I","J","K","L","M",
           "N","O","P","Q","R","S","T","U","V","W","X","Y","Z">>
LowerAlpha == <<"a","b","c","d","e","f","g","h","i","j","k","l","m",
                "n","o","p","q","r","s","t","u","v","w","x","y","z">>
Digits == <<"0","1","2","3","4","5","6","7","8","9">>

Range(s) == {s[i] : i \in DOMAIN s}

\* str.lower() on one character
LowerChar(c) ==
    IF \E i \in DOMAIN Upper : Upper[i] = c
    THEN LowerAlpha[CHOOSE i \in DOMAIN Upper : Upper[i] = c]
    ELSE c

\* str.lower()
Lower(s) == [i \in DOMAIN s |-> LowerChar(s[i])]

IsSpace(c) == c = " "

RECURSIVE LStrip(_)
LStrip(s) == IF s # <<>> /\ IsSpace(s[1]) THEN LStrip(Tail(s)) ELSE s

RECURSIVE RStrip(_)
RStrip(s) ==
    IF s # <<>> /\ IsSpace(s[Len(s)]) THEN RStrip(SubSeq(s, 1, Len(s) - 1)) ELSE s

\* str.strip()
Strip(s) == RStrip(LStrip(s))

\* sub in s (substring test)
Contains(s, sub) ==
    \E i \in 1..(Len(s) - Len(sub) + 1) : SubSeq(s, i, i + Len(sub) - 1) = sub

StartsWith(s, p) == Len(s) >= Len(p) /\ SubSeq(s, 1, Len(p)) = p
EndsWith(s, p) == Len(s) >= Len(p) /\ SubSeq(s, Len(s) - Len(p) + 1, Len(s)) = p

\* sep.join(list)
RECURSIVE Join(_, _)
Join(sep, l) ==
    IF l = <<>> THEN <<>>
    ELSE IF Len(l) = 1 THEN l[1]
    ELSE l[1] \o sep \o Join(sep, Tail(l))

\* str(n) for n >= 0
RECURSIVE IntStr(_)
IntStr(n) ==
    IF n < 10 THEN <<Digits[n + 1]>>
    ELSE IntStr(n \div 10) \o <<Digits[(n % 10) + 1]>>


\* the Python repr of a list of strings, as str(list) gives it
PyReprList(l) ==
    <<"[">> \o Join(<<",", " ">>, [i \in DOMAIN l |-> <<"'">> \o l[i] \o <<"'">>])
            \o <<"]">>

\* dict.get(key, default)
Get(d, key, default) == IF key \in DOMAIN d THEN d[key] ELSE default

-----------------------------------------------------------------------------
\* Regular expressions.
\* An attribute pattern is text over literals, the dot, a starred character,
\* a leading caret and a trailing dollar; re.search is computed by
\* backtracking.

RECURSIVE MatchHere(_, _), MatchStar(_, _, _)
MatchHere(p, s) ==
    IF p = <<>> THEN TRUE
    ELSE IF Len(p) >= 2 /\ p[2] = "*" THEN MatchStar(p[1], SubSeq(p, 3, Len(p)), s)
    ELSE IF p = <<"$">> THEN s = <<>>
    ELSE /\ s # <<>>
         /\ (p[1] = "." \/ p[1] = s[1])
         /\ MatchHere(Tail(p), Tail(s))
MatchStar(c, p, s) ==
    \/ MatchHere(p, s)
    \/ /\ s # <<>>
       /\ (c = "." \/ c = s[1])
       /\ MatchStar(c, p, Tail(s))

\* re.search(p, s) is not None
ReSearch(p, s) ==
    IF p # <<>> /\ p[1] = "^" THEN MatchHere(Tail(p), s)
    ELSE \E i \in 1..(Len(s) + 1) : MatchHere(p, SubSeq(s, i, Len(s)))

\* re.error: a quantifier with nothing to repeat
ReError(p) ==
    LET q == IF p # <<>> /\ p[1] = "^" THEN Tail(p) ELSE p
    IN  q # <<>> /\ q[1] = "*"

\* A text pattern (rule["text_pattern"]) is a sequence of tokens: a
\* one-character literal, or
\*   NUM     a capturing group of one or more digits
\*   OPTNUM  the same group made optional (it may not take part in a match)
\*   REST    a capturing group taking the rest of the text
\*   ANY     the rest of the text, not captured (the default pattern)
\*   SEP     a run of separators (white space, colon), not captured
\*   END     the end of the text
\*   BAD     a construct re.compile rejects
\* REST and ANY are followed by nothing but END, so matching needs no
\* backtracking.

IsDigit(c) == c \in Range(Digits)
IsSep(c) == IsSpace(c) \/ c = ":"

RECURSIVE TakeDigits(_)
TakeDigits(s) ==
    IF s # <<>> /\ IsDigit(s[1]) THEN <<s[1]>> \o TakeDigits(Tail(s)) ELSE <<>>

RECURSIVE DropSep(_)
DropSep(s) == IF s # <<>> /\ IsSep(s[1]) THEN DropSep(Tail(s)) ELSE s

Drop(s, n) == SubSeq(s, n + 1, Len(s))

NoMatchObj == [ok |-> FALSE, groups |-> <<>>]

RECURSIVE PatRun(_, _, _, _)
PatRun(atoms, ci, s, groups) ==
    IF atoms = <<>> THEN [ok |-> TRUE, groups |-> groups]
    ELSE
      LET a == atoms[1]
          rest == Tail(atoms)
          d == TakeDigits(s)
      IN  CASE a = "NUM" ->
                 IF d = <<>> THEN NoMatchObj
                 ELSE PatRun(rest, ci, Drop(s, Len(d)), Append(groups, d))
            [] a = "OPTNUM" ->
                 PatRun(rest, ci, Drop(s, Len(d)),
                        Append(groups, IF d = <<>> THEN None ELSE d))
            [] a = "REST" -> PatRun(rest, ci, <<>>, Append(groups, s))
            [] a = "ANY" -> PatRun(rest, ci, <<>>, groups)
            [] a = "SEP" -> PatRun(rest, ci, DropSep(s), groups)
            [] a = "END" -> IF s = <<>> THEN PatRun(rest, ci, s, groups)
                            ELSE NoMatchObj
            [] OTHER ->
                 IF /\ s # <<>>
                    /\ IF ci THEN LowerChar(a) = LowerChar(s[1]) ELSE a = s[1]
                 THEN PatRun(rest, ci, Tail(s), groups)
                 ELSE NoMatchObj

\* re.compile(pattern, flags) raises re.error
CompileError(pattern) == "BAD" \in Range(pattern)

\* re.compile(pattern, flags)
Compile(pattern, ci) == [atoms |-> pattern, ci |-> ci]

\* compiled_pattern.match(text): the match object ([ok |-> FALSE] for None)
PatMatch(cp, text) == PatRun(cp.atoms, cp.ci, text, <<>>)

-----------------------------------------------------------------------------
(* Markup.  An attribute value is [multi, v]: v is the list of its values  *)
(* (one value when the attribute is not multi-valued).  A node is          *)
(* [kind, name, attrs, text, kids]: kind "tag" or "str" (NavigableString). *)

StrVal(s) == [multi |-> FALSE, v |-> <<s>>]
ListVal(l) == [multi |-> TRUE, v |-> l]

StrNode(t) == [kind |-> "str", name |-> None, attrs |-> <<>>, text |-> t, kids |-> <<>>]
Tag(n, a, kids) == [kind |-> "tag", name |-> n, attrs |-> a, text |-> <<>>, kids |-> kids]

\* node.get_text(strip=True): the stripped strings below the node, joined
RECURSIVE GetText(_)
GetText(node) ==
    IF node.kind = "str" THEN Strip(node.text)
    ELSE Join(<<>>, [i \in DOMAIN node.kids |-> GetText(node.kids[i])])

-----------------------------------------------------------------------------
(* attrs_match and classify_heading *)

AttrKeyFails(elem_attrs, key, expected_value) ==
    LET got == Get(elem_attrs, key, StrVal(<<>>))
        actual_value == IF key = "class" /\ got.multi THEN Join(<<" ">>, got.v)
                        ELSE IF got.multi THEN PyReprList(got.v)
                        ELSE got.v[1]
    IN  IF \/ StartsWith(expected_value, <<"^">>)
           \/ EndsWith(expected_value, <<"$">>)
           \/ Contains(expected_value, <<".", "*">>)
        THEN ReError(expected_value) \/ ~ReSearch(expected_value, actual_value)
        ELSE ~Contains(actual_value, expected_value)

attrs_match(elem_attrs, required_attrs) ==
    IF DOMAIN required_attrs = {} THEN TRUE
    ELSE \A key \in DOMAIN required_attrs :
            ~AttrKeyFails(elem_attrs, key, required_attrs[key])

\* what classify_heading returns; matched = FALSE stands for the tuple of
\* six None (callers test "level is None")
NoMatch ==
    [matched |-> FALSE, level |-> 0, text |-> None, zone_type |-> None,
     numbering |-> None, display_template |-> None, compiled_pattern |-> None]

ZChapter == <<"c","h","a","p","t","e","r">>
ZPart == <<"p","a","r","t">>
ZAppendix == <<"a","p","p","e","n","d","i","x">>
ZFront == <<"f","r","o","n","t","m","a","t","t","e","r">>
ZBack == <<"b","a","c","k","m","a","t","t","e","r">>

\* parent_attrs, or the legacy "class" key when the rule has none
ParentAttrs(rule) ==
    IF "parent_attrs" \in DOMAIN rule THEN rule.parent_attrs
    ELSE LET legacy_class == Strip(Get(rule, "class", <<>>))
         IN  IF legacy_class # <<>> THEN [class |-> legacy_class] ELSE <<>>

\* child_attrs, or the legacy "child_class" key when the rule has none
ChildAttrs(rule) ==
    IF "child_attrs" \in DOMAIN rule THEN rule.child_attrs
    ELSE LET legacy_child_class == Strip(Get(rule, "child_class", <<>>))
         IN  IF legacy_child_class # <<>> THEN [class |-> legacy_child_class]
             ELSE <<>>

\* the children of elem that are not blank strings
NonBlankChildren(elem) ==
    SelectSeq(elem.kids, LAMBDA c : ~(c.kind = "str" /\ Strip(c.text) = <<>>))

\* the body of the loop of classify_heading for one rule: the classification
\* it returns, or NoMatch where the code continues with the next rule
RuleBody(elem, rule) ==
    IF elem.name # rule.element THEN NoMatch
    ELSE IF ~attrs_match(elem.attrs, ParentAttrs(rule)) THEN NoMatch
    ELSE
      LET child_element == Strip(Get(rule, "child_element", <<>>))
          use_child == child_element # <<>>
          children == NonBlankChildren(elem)
      IN  IF use_child /\ Len(children) # 1 THEN NoMatch
          ELSE IF use_child /\ children[1].name # child_element THEN NoMatch
          ELSE IF use_child /\ ~attrs_match(children[1].attrs, ChildAttrs(rule))
               THEN NoMatch
          ELSE
            LET text == IF use_child THEN GetText(children[1]) ELSE GetText(elem)
            IN  IF PatMatch(rule.compiled_pattern, text).ok
                THEN [matched |-> TRUE,
                      level |-> rule.level,
                      text |-> text,
                      zone_type |-> Get(rule, "zone_type", ZChapter),
                      numbering |-> Get(rule, "numbering", None),
                      display_template |-> Get(rule, "display_template", <<>>),
                      compiled_pattern |-> rule.compiled_pattern]
                ELSE NoMatch

RECURSIVE ClassifyFrom(_, _, _)
ClassifyFrom(rs, elem, i) ==
    IF i > Len(rs) THEN NoMatch
    ELSE LET r == RuleBody(elem, rs[i])
         IN  IF r.matched THEN r ELSE ClassifyFrom(rs, elem, i + 1)

\* a matcher in which a later matching rule overrides an earlier one
RECURSIVE ClassifyLastFrom(_, _, _)
ClassifyLastFrom(rs, elem, i) ==
    IF i < 1 THEN NoMatch
    ELSE LET r == RuleBody(elem, rs[i])
         IN  IF r.matched THEN r ELSE ClassifyLastFrom(rs, elem, i - 1)
classify_heading_last(rs, elem) == ClassifyLastFrom(rs, elem, Len(rs))

\* create_classify_heading_function(rules)(elem)
classify_heading(rs, elem) == ClassifyFrom(rs, elem, 1)

-----------------------------------------------------------------------------
(* Documents.  A content document is the sequence of its top-level         *)
(* elements; an element's kids are strings and tags holding strings.       *)

\* soup.find_all(tags): the paths of the tags named in tags, in document order
RECURSIVE FindAll(_, _, _)
FindAll(soup, tgs, e) ==
    IF e > Len(soup) THEN <<>>
    ELSE
      LET own == IF soup[e].name \in Range(tgs) THEN <<<<e, 0>>>> ELSE <<>>
          below == SelectSeq([k \in DOMAIN soup[e].kids |-> <<e, k>>],
                             LAMBDA p : /\ soup[e].kids[p[2]].kind = "tag"
                                        /\ soup[e].kids[p[2]].name \in Range(tgs))
      IN  own \o below \o FindAll(soup, tgs, e + 1)

NodeAt(soup, path) ==
    IF path[2] = 0 THEN soup[path[1]] ELSE soup[path[1]].kids[path[2]]

\* a copy of attrs with attrs[key] = value
SetAttr(attrs, key, value) ==
    [k \in DOMAIN attrs \cup {key} |-> IF k = key THEN value ELSE attrs[k]]

\* elem["id"] = anchor on the node at path
StampId(soup, path, anchor) ==
    LET e == path[1]
        k == path[2]
        stamped(n) == [n EXCEPT !.attrs = SetAttr(n.attrs, "id", StrVal(anchor))]
    IN  IF k = 0 THEN [soup EXCEPT ![e] = stamped(soup[e])]
        ELSE [soup EXCEPT ![e].kids[k] = stamped(soup[e].kids[k])]

-----------------------------------------------------------------------------
(* Numbering helpers *)

RomanVal == <<1000, 900, 500, 400, 100, 90, 50, 40, 10, 9, 5, 4, 1>>
\* the symbol table without the subtractive form of 4
RomanSybAdditive ==
    << <<"M">>, <<"C","M">>, <<"D">>, <<"C","D">>, <<"C">>, <<"X","C">>,
       <<"L">>, <<"X","L">>, <<"X">>, <<"I","X">>, <<"V">>, <<"I","I","I","I">>,
       <<"I">> >>

RomanSyb == << <<"M">>, <<"C","M">>, <<"D">>, <<"C","D">>, <<"C">>, <<"X","C">>,
               <<"L">>, <<"X","L">>, <<"X">>, <<"I","X">>, <<"V">>, <<"I","V">>,
               <<"I">> >>

RECURSIVE Repeat(_, _)
Repeat(s, n) == IF n <= 0 THEN <<>> ELSE s \o Repeat(s, n - 1)

\* the while loop of int_to_roman from table index i (1-based here);
\* raised: val[i] was read past the end of the table (IndexError)
RECURSIVE RomanLoop(_, _, _)
RomanLoop(num, i, roman) ==
    IF ~(num > 0) THEN [raised |-> FALSE, roman |-> roman]
    ELSE IF i > Len(RomanVal) THEN [raised |-> TRUE, roman |-> roman]
    ELSE LET times == num \div RomanVal[i]
         IN  RomanLoop(num - times * RomanVal[i], i + 1,
                       roman \o Repeat(RomanSyb[i], times))

int_to_roman(num) == RomanLoop(num, 1, <<>>).roman

\* chr(n) for the codes 65..126 ("grave" stands for the character of code 96)
Ascii65 == Upper \o <<"[", "\\", "]", "^", "_", "grave">> \o LowerAlpha
                 \o <<"{", "|", "}", "~">>
Chr(n) == Ascii65[n - 64]
OrdA == 65

IsSlugChar(c) == c \in Range(LowerAlpha) \/ c \in Range(Digits)

\* re.sub("[^a-z0-9]+", "-", s): inRun says the previous character was
\* already replaced
RECURSIVE SubRuns(_, _)
SubRuns(s, inRun) ==
    IF s = <<>> THEN <<>>
    ELSE IF IsSlugChar(s[1]) THEN <<s[1]>> \o SubRuns(Tail(s), FALSE)
    ELSE IF inRun THEN SubRuns(Tail(s), TRUE)
    ELSE <<"-">> \o SubRuns(Tail(s), TRUE)

\* strip that leaves the leading characters
LStripCharNone(s, c) == s

RECURSIVE LStripChar(_, _)
LStripChar(s, c) == IF s # <<>> /\ s[1] = c THEN LStripChar(Tail(s), c) ELSE s
RECURSIVE RStripChar(_, _)
RStripChar(s, c) ==
    IF s # <<>> /\ s[Len(s)] = c THEN RStripChar(SubSeq(s, 1, Len(s) - 1), c)
    ELSE s

safe_id_from_text(text) ==
    LET s == RStripChar(LStripChar(SubRuns(Lower(text), FALSE), "-"), "-")
    IN  IF s # <<>> THEN s ELSE <<"t","o","c","-","i","t","e","m">>

\* extract_clean_text_and_number(raw_text, compiled_pattern);
\* raised: groups[0] is None and has no strip() (AttributeError)
extract_clean_text_and_number(raw_text, compiled_pattern) ==
    LET match == PatMatch(compiled_pattern, raw_text)
        groups == match.groups
    IN  IF ~match.ok
        THEN [raised |-> FALSE, num |-> <<>>, text |-> Strip(raw_text)]
        ELSE IF Len(groups) >= 1 /\ groups[1] = None
        THEN [raised |-> TRUE, num |-> <<>>, text |-> <<>>]
        ELSE [raised |-> FALSE,
              num |-> IF Len(groups) >= 1 THEN Strip(groups[1]) ELSE <<>>,
              text |-> IF Len(groups) >= 2 /\ groups[2] # None /\ groups[2] # <<>>
                       THEN Strip(groups[2])
                       ELSE Strip(raw_text)]

\* A display template is a sequence of tokens: a one-character literal or a
\* replacement field "{name}".
IsField(tok) == tok \in {"{num}", "{text}", "{raw}", "{title}"}

\* template.format(num=num, text=text, raw=raw);
\* raised: a field names no keyword argument (KeyError)
RECURSIVE FormatFrom(_, _, _, _)
FormatFrom(template, num, text, raw) ==
    IF template = <<>> THEN [raised |-> FALSE, s |-> <<>>]
    ELSE
      LET tok == template[1]
          rest == FormatFrom(Tail(template), num, text, raw)
          piece == CASE tok = "{num}" -> num
                     [] tok = "{text}" -> text
                     [] tok = "{raw}" -> raw
                     [] OTHER -> <<tok>>
      IN  IF IsField(tok) /\ tok \notin {"{num}", "{text}", "{raw}"}
          THEN [raised |-> TRUE, s |-> <<>>]
          ELSE [raised |-> rest.raised, s |-> IF rest.raised THEN <<>> ELSE piece \o rest.s]

Format(template, num, text, raw) == FormatFrom(template, num, text, raw)

\* TOCContext()
NewContext ==
    [chapter_counter |-> 0, appendix_counter |-> 0, frontmatter_counter |-> 0,
     backmatter_counter |-> 0, part_counter |-> 0, section_counters |-> <<>>]

ZeroCounter == [sec2 |-> 0, sec3 |-> 0, sec4 |-> 0]

\* get_section_counter handing a new parent the counters of the parent
\* before it, where it should hand it fresh ones
get_section_counter_carried(section_counters, base_id) ==
    IF base_id \in DOMAIN section_counters THEN section_counters
    ELSE LET last == IF DOMAIN section_counters = {} THEN ZeroCounter
                     ELSE section_counters[CHOOSE k \in DOMAIN section_counters :
                            \A o \in DOMAIN section_counters : Len(o) <= Len(k)]
         IN  [k \in DOMAIN section_counters \cup {base_id} |->
                IF k = base_id THEN last ELSE section_counters[k]]

\* the section_counters map after TOCContext.get_section_counter(base_id)
get_section_counter(section_counters, base_id) ==
    IF base_id \in DOMAIN section_counters THEN section_counters
    ELSE [k \in DOMAIN section_counters \cup {base_id} |->
            IF k = base_id THEN ZeroCounter ELSE section_counters[k]]

-----------------------------------------------------------------------------
(* The host package (bk).  Its implementation is not part of the           *)
(* repository; these operators follow the collaborator contract.           *)

HrefNcx == <<"t","o","c",".","n","c","x">>
HrefToc == <<"t","o","c",".","h","t","m","l">>

\* bk.id_to_href(id)
bk_id_to_href(manifest, id) ==
    manifest[CHOOSE i \in DOMAIN manifest : manifest[i].id = id].href

\* bk.bookpath_to_id(path): "" stands for None
bk_bookpath_to_id(manifest, path) ==
    IF \E i \in DOMAIN manifest : manifest[i].href = path
    THEN manifest[CHOOSE i \in DOMAIN manifest : manifest[i].href = path].id
    ELSE ""

\* bk.get_opf(), parsed: the containers and their children
bk_get_opf ==
    [has_manifest |-> opfManifest,
     items |-> IF opfManifest THEN bkManifest ELSE <<>>,
     has_spine |-> opfSpine,
     itemrefs |-> IF opfSpine THEN bkSpine ELSE <<>>]

\* bk.spine_insert_before(pos, id, linear) on the reading order
bk_spine_insert_before(spine, pos, id) ==
    IF pos >= Len(spine) THEN Append(spine, id)
    ELSE SubSeq(spine, 1, pos) \o <<id>> \o SubSeq(spine, pos + 1, Len(spine))

SetKey(f, key, value) ==
    [k \in DOMAIN f \cup {key} |-> IF k = key THEN value ELSE f[k]]

-----------------------------------------------------------------------------
(* generate_toc *)

Running == [kind |-> "running", err |-> "", occ |-> 0]
\* the pair without the count accumulated so far
ReturnPairNoCount(err, occ) == [kind |-> "pair", err |-> err, occ |-> 0]

\* return e, self.occurrences  /  return None, self.occurrences
ReturnPair(err, occ) == [kind |-> "pair", err |-> err, occ |-> occ]
\* a bare return
ReturnNone == [kind |-> "none", err |-> "", occ |-> 0]

SyntheticRoot ==
    [level |-> 0,
     text |-> <<"T","a","b","l","e"," ","o","f"," ","C","o","n","t","e","n","t","s">>,
     file |-> HrefToc,
     anchor |-> <<"t","o","c">>]

\* rule with rule["compiled_pattern"] set
Compiled(rule) ==
    SetKey(rule, "compiled_pattern",
           Compile(Get(rule, "text_pattern", <<"ANY">>),
                   Get(rule, "case_insensitive", FALSE)))

\* lines 235-238: compile every rule's pattern
CompileRules ==
    /\ pc = "compile"
    /\ LET bad == {i \in DOMAIN rules :
                     CompileError(Get(rules[i], "text_pattern", <<"ANY">>))}
           first == IF bad = {} THEN Len(rules) + 1
                    ELSE CHOOSE i \in bad : \A j \in bad : i <= j
       IN  /\ rules' = [i \in DOMAIN rules |->
                          IF i < first THEN Compiled(rules[i]) ELSE rules[i]]
           /\ IF bad = {}
              THEN pc' = "spine" /\ ret' = ret
              ELSE pc' = "done" /\ ret' = ReturnPair("re.error", occurrences)
    /\ UNCHANGED <<runs, tags, style, occurrences, bkSpine, bkManifest, bkContent,
                   opfManifest, opfSpine, calls, spine_files, root, scanned,
                   file_soups, all_raw_items, idx, context, toc_items, tree,
                   navpoints, ncx, html, toc_id>>

\* lines 243-252: read the reading order and the package description
GetSpine ==
    /\ pc = "spine"
    /\ spine_files' = bkSpine
    /\ IF bkSpine = <<>>
       THEN /\ pc' = "done"
            /\ ret' = ReturnPair("Exception", occurrences)
            /\ root' = root
       ELSE /\ pc' = "scan"
            /\ ret' = ret
            /\ root' = bk_get_opf
    /\ UNCHANGED <<runs, rules, tags, style, occurrences, bkSpine, bkManifest, bkContent,
                   opfManifest, opfSpine, calls, scanned, file_soups,
                   all_raw_items, idx, context, toc_items, tree, navpoints, ncx,
                   html, toc_id>>

\* the heading record appended for the element at path of file fname
RawItem(fname, path, c) ==
    [level |-> c.level, elem |-> <<fname, path>>,
     file_name |-> bk_id_to_href(bkManifest, fname),
     raw_text |-> c.text, zone_type |-> c.zone_type, numbering |-> c.numbering,
     display_template |-> c.display_template,
     compiled_pattern |-> c.compiled_pattern,
     display_text |-> None, anchor_id |-> None]

\* lines 259-282 for one document: the records of its matched elements
RECURSIVE Collect(_, _, _, _)
Collect(fname, soup, paths, i) ==
    IF i > Len(paths) THEN <<>>
    ELSE LET c == classify_heading(rules, NodeAt(soup, paths[i]))
         IN  (IF c.matched THEN <<RawItem(fname, paths[i], c)>> ELSE <<>>)
             \o Collect(fname, soup, paths, i + 1)

\* a call of the host that changes the package: the operation and the id
Call(op, id) == [op |-> op, id |-> id]

\* one pass of the scan that writes the document back as soon as it is read
ScanFileWriting ==
    /\ pc = "scan"
    /\ scanned < Len(spine_files)
    /\ LET fname == spine_files[scanned + 1]
           soup == bkContent[fname]
       IN  /\ file_soups' =
                 IF \E i \in DOMAIN file_soups : file_soups[i].fname = fname
                 THEN [i \in DOMAIN file_soups |->
                         IF file_soups[i].fname = fname
                         THEN [fname |-> fname, soup |-> soup] ELSE file_soups[i]]
                 ELSE Append(file_soups, [fname |-> fname, soup |-> soup])
           /\ all_raw_items' =
                 all_raw_items \o Collect(fname, soup, FindAll(soup, tags, 1), 1)
    /\ scanned' = scanned + 1
    /\ pc' = IF scanned + 1 = Len(spine_files) THEN "check" ELSE "scan"
    /\ UNCHANGED <<runs, rules, tags, style, occurrences, bkSpine, bkManifest, bkContent,
                   opfManifest, opfSpine, spine_files, root, idx, context,
                   toc_items, tree, navpoints, ncx, html, toc_id, ret>>
    /\ calls' = Append(calls, Call("writefile", spine_files[scanned + 1]))

\* lines 254-282, one pass of the loop over spine_files
ScanFile ==
    /\ pc = "scan"
    /\ scanned < Len(spine_files)
    /\ LET fname == spine_files[scanned + 1]
           soup == bkContent[fname]
       IN  /\ file_soups' =
                 IF \E i \in DOMAIN file_soups : file_soups[i].fname = fname
                 THEN [i \in DOMAIN file_soups |->
                         IF file_soups[i].fname = fname
                         THEN [fname |-> fname, soup |-> soup] ELSE file_soups[i]]
                 ELSE Append(file_soups, [fname |-> fname, soup |-> soup])
           /\ all_raw_items' =
                 all_raw_items \o Collect(fname, soup, FindAll(soup, tags, 1), 1)
    /\ scanned' = scanned + 1
    /\ pc' = IF scanned + 1 = Len(spine_files) THEN "check" ELSE "scan"
    /\ UNCHANGED <<runs, rules, tags, style, occurrences, bkSpine, bkManifest, bkContent,
                   opfManifest, opfSpine, calls, spine_files, root, idx, context,
                   toc_items, tree, navpoints, ncx, html, toc_id, ret>>

\* the test for no matched heading left out
NothingMatchedNever(items) == FALSE

\* not all_raw_items
NothingMatched(items) == items = <<>>

\* lines 284-296: nothing matched, or the numbering starts
CheckEmpty ==
    /\ pc = "check"
    /\ IF NothingMatched(all_raw_items)
       THEN /\ pc' = "done"
            /\ ret' = ReturnPair("None", occurrences)
            /\ UNCHANGED <<context, toc_items, idx>>
       ELSE /\ pc' = IF Len(all_raw_items) = 0 THEN "save" ELSE "number"
            /\ ret' = ret
            /\ context' = NewContext
            /\ toc_items' = <<SyntheticRoot>>
            /\ idx' = 1
    /\ UNCHANGED <<runs, rules, tags, style, occurrences, bkSpine, bkManifest, bkContent,
                   opfManifest, opfSpine, calls, spine_files, root, scanned,
                   file_soups, all_raw_items, tree, navpoints, ncx, html, toc_id>>

TxtChapter == <<"C","h","a","p","t","e","r"," ">>
TxtAppendix == <<"A","p","p","e","n","d","i","x"," ">>

\* the record just before position i taken as the parent, whatever its level
ParentIndexPrevious(items, i) == IF i <= 1 THEN 0 ELSE i - 1

\* the index of the nearest level-1 record before position i, 0 when none
RECURSIVE ParentIndex(_, _)
ParentIndex(items, i) ==
    IF i <= 1 THEN 0
    ELSE IF items[i - 1].level = 1 THEN i - 1
    ELSE ParentIndex(items, i - 1)

\* every zone counter of the context raised by one, where each zone should
\* raise only its own
BumpAll(ctx, counter) ==
    [ctx EXCEPT !.chapter_counter = @ + 1, !.part_counter = @ + 1,
                !.appendix_counter = @ + 1]

\* context.<counter> += 1
Bump(ctx, counter) == [ctx EXCEPT ![counter] = @ + 1]

\* lines 298-347: counter, anchor and display text of a level-1 record.
\* raised names the exception that ends the run, "" when there is none.
NumberLevel1(ctx, items, i) ==
    LET item == items[i]
        zt == item.zone_type
        raw == item.raw_text
        template == item.display_template
        ex == extract_clean_text_and_number(raw, item.compiled_pattern)
        out(c, anchor, f) ==
            [raised |-> IF f.raised THEN "KeyError" ELSE "", ctx |-> c,
             anchor |-> anchor, display |-> f.s]
        plain(t) == [raised |-> FALSE, s |-> t]
    IN  IF ex.raised
        THEN [raised |-> "AttributeError", ctx |-> ctx, anchor |-> None,
              display |-> None]
        ELSE
        CASE zt = ZChapter ->
               LET c == Bump(ctx, "chapter_counter")
                   n == c.chapter_counter
                   auto_num == IntStr(n)
               IN  out(c, auto_num,
                       IF template # <<>>
                       THEN Format(template, auto_num, ex.text, raw)
                       ELSE plain(TxtChapter \o auto_num))
          [] zt = ZPart ->
               LET c == Bump(ctx, "part_counter")
                   n == c.part_counter
                   roman == int_to_roman(n)
               IN  out(c,
                       <<"p","a","r","t","-">> \o Lower(roman),
                       IF template # <<>>
                       THEN Format(template, roman, ex.text, raw)
                       ELSE plain(raw))
          [] zt = ZAppendix ->
               LET c == Bump(ctx, "appendix_counter")
                   n == c.appendix_counter
                   letter == <<Chr(OrdA + n - 1)>>
               IN  out(c,
                       <<"a","p","p","-">> \o Lower(letter),
                       IF template # <<>>
                       THEN Format(template, letter, ex.text, raw)
                       ELSE plain(TxtAppendix \o letter))
          [] zt \in {ZFront, ZBack} ->
               out(ctx, SubSeq(zt, 1, 4) \o <<"-">> \o safe_id_from_text(raw),
                   IF template # <<>>
                   THEN Format(template, <<>>, raw, raw)
                   ELSE plain(raw))
          [] OTHER ->
               \* no branch assigns display_text and anchor_id: they keep the
               \* values of the previous level-1 record, or are unbound
               LET j == ParentIndex(items, i)
               IN  IF j = 0
                   THEN [raised |-> "UnboundLocalError", ctx |-> ctx,
                         anchor |-> None, display |-> None]
                   ELSE [raised |-> "", ctx |-> ctx,
                         anchor |-> items[j].anchor_id,
                         display |-> items[j].display_text]

\* the numbering of a section with level 4 and deeper counted as level 3
NumberSectionTwoClasses(ctx, base_id, lvl) ==
    LET sc == get_section_counter(ctx.section_counters, base_id)
        counter == sc[base_id]
        key == IF lvl = 2 THEN "sec2" ELSE "sec3"
        seq == counter[key] + 1
        mark == IF lvl = 2 THEN <<>> ELSE <<"s">>
    IN  [ctx |-> [ctx EXCEPT !.section_counters =
                     [sc EXCEPT ![base_id] = [counter EXCEPT ![key] = seq]]],
         anchor |-> base_id \o <<"-">> \o mark \o IntStr(seq)]

\* lines 371-386: counter and anchor of a record of level lvl under base_id
NumberSection(ctx, base_id, lvl) ==
    LET sc == get_section_counter(ctx.section_counters, base_id)
        counter == sc[base_id]
        key == IF lvl = 2 THEN "sec2" ELSE IF lvl = 3 THEN "sec3" ELSE "sec4"
        seq == counter[key] + 1
        mark == IF lvl = 2 THEN <<>> ELSE IF lvl = 3 THEN <<"s">> ELSE <<"s","s">>
    IN  [ctx |-> [ctx EXCEPT !.section_counters =
                     [sc EXCEPT ![base_id] = [counter EXCEPT ![key] = seq]]],
         anchor |-> base_id \o <<"-">> \o mark \o IntStr(seq)]

\* item["elem"]["id"] = anchor on the parsed documents
Stamp(soups, elem, anchor) ==
    [f \in DOMAIN soups |->
        IF soups[f].fname = elem[1]
        THEN [soups[f] EXCEPT !.soup = StampId(soups[f].soup, elem[2], anchor)]
        ELSE soups[f]]

TocRecord(level, text, file, anchor) ==
    [level |-> level, text |-> text, file |-> file, anchor |-> anchor]

\* lines 297-399, one pass of the numbering loop
NumberItem ==
    /\ pc = "number"
    /\ idx <= Len(all_raw_items)
    /\ LET item == all_raw_items[idx]
           next == IF idx = Len(all_raw_items) THEN "save" ELSE "number"
       IN  IF item.level = 1
           THEN
             LET r == NumberLevel1(context, all_raw_items, idx)
             IN  IF r.raised # ""
                 THEN /\ pc' = "done"
                      /\ ret' = ReturnPair(r.raised, occurrences)
                      /\ context' = r.ctx
                      /\ UNCHANGED <<all_raw_items, file_soups, toc_items,
                                     occurrences, idx>>
                 ELSE /\ context' = r.ctx
                      /\ all_raw_items' =
                            [all_raw_items EXCEPT ![idx].display_text = r.display,
                                                  ![idx].anchor_id = r.anchor]
                      /\ file_soups' = Stamp(file_soups, item.elem, r.anchor)
                      /\ toc_items' = Append(toc_items,
                            TocRecord(1, r.display, item.file_name, r.anchor))
                      /\ occurrences' = occurrences + 1
                      /\ idx' = idx + 1
                      /\ pc' = next
                      /\ ret' = ret
           ELSE
             LET j == ParentIndex(all_raw_items, idx)
             IN  IF j = 0
                 THEN /\ idx' = idx + 1
                      /\ pc' = next
                      /\ UNCHANGED <<context, all_raw_items, file_soups,
                                     toc_items, occurrences, ret>>
                 ELSE
                   LET r == NumberSection(context, all_raw_items[j].anchor_id,
                                          item.level)
                   IN  /\ context' = r.ctx
                       /\ all_raw_items' =
                             [all_raw_items EXCEPT ![idx].anchor_id = r.anchor,
                                                   ![idx].display_text = item.raw_text]
                       /\ file_soups' = Stamp(file_soups, item.elem, r.anchor)
                       /\ toc_items' = Append(toc_items,
                             TocRecord(item.level, item.raw_text, item.file_name,
                                       r.anchor))
                       /\ occurrences' = occurrences + 1
                       /\ idx' = idx + 1
                       /\ pc' = next
                       /\ ret' = ret
    /\ UNCHANGED <<runs, rules, tags, style, bkSpine, bkManifest, bkContent,
                   opfManifest, opfSpine, calls, spine_files, root, scanned,
                   tree, navpoints, ncx, html, toc_id>>

-----------------------------------------------------------------------------
(* Tree, navigation document and HTML page.  A tree of dictionaries is     *)
(* kept as the sequence of its nodes in creation order, each with the      *)
(* index of its parent (0: the top-level list); a node's children are the  *)
(* nodes naming it as parent, in creation order, as list.append leaves     *)
(* them.                                                                   *)

Children(nodes, p) ==
    SelectSeq([i \in DOMAIN nodes |-> i], LAMBDA i : nodes[i].parent = p)

Src(item) == item.file \o <<"#">> \o item.anchor

\* one pop where the loop should pop down to the level
PopOnce(stack, level) ==
    IF Len(stack) > level THEN SubSeq(stack, 1, Len(stack) - 1) ELSE stack

\* while len(stack) > level: stack.pop()
RECURSIVE PopToDepth(_, _)
PopToDepth(stack, level) ==
    IF Len(stack) > level THEN PopToDepth(SubSeq(stack, 1, Len(stack) - 1), level)
    ELSE stack

\* the loop of build_tree from record i; stack holds node indices, 0 the root
RECURSIVE BuildTreeFrom(_, _, _, _)
BuildTreeFrom(items, i, nodes, stack) ==
    IF i > Len(items) THEN nodes
    ELSE IF items[i].level = 0 THEN BuildTreeFrom(items, i + 1, nodes, stack)
    ELSE
      LET st == PopToDepth(stack, items[i].level)
          node == [level |-> items[i].level, text |-> items[i].text,
                   src |-> Src(items[i]), parent |-> st[Len(st)]]
      IN  BuildTreeFrom(items, i + 1, Append(nodes, node),
                        Append(st, Len(nodes) + 1))

\* build_tree with the synthetic record taken for a level-1 heading
build_tree_with_root(items) ==
    BuildTreeFrom([i \in DOMAIN items |->
                     IF items[i].level = 0 THEN [items[i] EXCEPT !.level = 1]
                     ELSE items[i]], 1, <<>>, <<0>>)

\* build_tree(items)
build_tree(items) == BuildTreeFrom(items, 1, <<>>, <<0>>)

NavPointId(n) == <<"n","a","v","P","o","i","n","t","-">> \o IntStr(n)

\* while stack and stack[-1]["level"] >= level: stack.pop()
RECURSIVE PopToLevel(_, _, _)
PopToLevel(nodes, stack, level) ==
    IF stack # <<>> /\ nodes[stack[Len(stack)]].level >= level
    THEN PopToLevel(nodes, SubSeq(stack, 1, Len(stack) - 1), level)
    ELSE stack

\* lines 427-453 from record i.  nav.nodes are the np dictionaries, nav.top
\* the list navpoints; parent -1 marks a dictionary attached to nothing.
RECURSIVE BuildNavFrom(_, _, _, _)
BuildNavFrom(items, i, nav, stack) ==
    IF i > Len(items) THEN nav
    ELSE
      LET play_order == i
          level == items[i].level
          np(parent) == [id |-> NavPointId(play_order), playOrder |-> play_order,
                         text |-> items[i].text, src |-> Src(items[i]),
                         level |-> level, parent |-> parent]
          me == Len(nav.nodes) + 1
          st == PopToLevel(nav.nodes, stack, level)
      IN  IF level > 0
          THEN IF level = 1
               THEN BuildNavFrom(items, i + 1,
                        [nodes |-> Append(nav.nodes, np(0)),
                         top |-> Append(nav.top, me)], <<me>>)
               ELSE IF st # <<>>
               THEN BuildNavFrom(items, i + 1,
                        [nodes |-> Append(nav.nodes, np(st[Len(st)])),
                         top |-> nav.top], Append(st, me))
               ELSE BuildNavFrom(items, i + 1,
                        [nodes |-> Append(nav.nodes, np(-1)), top |-> nav.top], st)
          ELSE BuildNavFrom(items, i + 1,
                   [nodes |-> Append(nav.nodes, np(0)), top |-> <<me>> \o nav.top],
                   stack)

BuildNavpoints(items) == BuildNavFrom(items, 1, [nodes |-> <<>>, top |-> <<>>], <<>>)

\* xml.sax.saxutils.escape
RECURSIVE Escape(_)
Escape(s) ==
    IF s = <<>> THEN <<>>
    ELSE (CASE s[1] = "&" -> <<"&","a","m","p",";">>
            [] s[1] = "<" -> <<"&","l","t",";">>
            [] s[1] = ">" -> <<"&","g","t",";">>
            [] OTHER -> <<s[1]>>) \o Escape(Tail(s))

\* add_nav_point(parent_el, node, play_order_counter) and its recursion over
\* the children in kids from position k.  acc.out are the navPoint elements
\* in document order, each with the index of its parent element (0: navMap).
RECURSIVE AddNavPoints(_, _, _, _, _)
AddNavPoints(acc, nodes, kids, k, parent_el) ==
    IF k > Len(kids) THEN acc
    ELSE
      LET node == nodes[kids[k]]
          counter == acc.counter + 1
          nav_point == [id |-> NavPointId(counter), playOrder |-> IntStr(counter),
                        text |-> Escape(node.text), src |-> node.src,
                        parent |-> parent_el]
          mine == Len(acc.out) + 1
          below == AddNavPoints([out |-> Append(acc.out, nav_point),
                                 counter |-> counter],
                                nodes, Children(nodes, kids[k]), 1, mine)
      IN  AddNavPoints(below, nodes, kids, k + 1, parent_el)

Max(S) == CHOOSE m \in S : \A x \in S : x <= m

\* max_depth(nodes, depth) on the children of node p of the tree
RECURSIVE max_depth(_, _, _)
max_depth(nodes, p, depth) ==
    LET kids == Children(nodes, p)
    IN  IF kids = <<>> THEN depth
        ELSE Max({max_depth(nodes, kids[k], depth + 1) : k \in DOMAIN kids})

\* the navigation document with the play order counted from 2
BuildNcxDocFromOne(tr, nav) ==
    LET max_d == max_depth(tr, 0, 0)
    IN  [depth |-> IntStr(IF max_d > 0 THEN max_d ELSE 1),
         navMap |-> AddNavPoints([out |-> <<>>, counter |-> 1], nav.nodes,
                                 nav.top, 1, 0).out]

\* lines 488-513: the navigation document
BuildNcxDoc(tr, nav) ==
    LET max_d == max_depth(tr, 0, 0)
    IN  [depth |-> IntStr(IF max_d > 0 THEN max_d ELSE 1),
         navMap |-> AddNavPoints([out |-> <<>>, counter |-> 0], nav.nodes,
                                 nav.top, 1, 0).out]

\* lines 535-541: style_cls; style maps a level key to its (key, value) pairs
StyleCls(st) ==
    [lev \in DOMAIN st |->
        Join(<<" ">>,
             LET kept == SelectSeq(st[lev], LAMBDA kv : kv.v # <<>>)
             IN  [i \in DOMAIN kept |->
                    kept[i].k \o <<"=", "\"">> \o kept[i].v \o <<"\"">>])]

\* generate_html_toc(tree, level) on the children of node p: the lines, each
\* [indent, kind, href, cls, text] (indent counts the two-space prefixes)
RECURSIVE HtmlItems(_, _, _, _, _, _)
HtmlLine(ind, kind) ==
    [indent |-> ind, kind |-> kind, href |-> <<>>, cls |-> <<>>, text |-> <<>>]

generate_html_toc(nodes, style_cls, p, level, ind) ==
    LET kids == Children(nodes, p)
    IN  IF kids = <<>> THEN <<>>
        ELSE <<HtmlLine(ind, "ol")>>
             \o HtmlItems(nodes, style_cls, kids, 1, level, ind)
             \o <<HtmlLine(ind, "/ol")>>

HtmlItems(nodes, style_cls, kids, k, level, ind) ==
    IF k > Len(kids) THEN <<>>
    ELSE
      LET node == nodes[kids[k]]
          cls == Get(style_cls, IntStr(level), <<>>)
          link == [indent |-> ind + 1, kind |-> "li", href |-> node.src,
                   cls |-> cls, text |-> Escape(node.text)]
      IN  (IF node.src = HrefToc THEN <<>>
           ELSE <<link>>
                \o generate_html_toc(nodes, style_cls, kids[k], level + 1, ind + 1)
                \o <<HtmlLine(ind + 1, "/li")>>)
          \o HtmlItems(nodes, style_cls, kids, k + 1, level, ind)

-----------------------------------------------------------------------------
(* The writing stages of generate_toc *)

\* bkContent after bk.writefile(fname, str(soup)) for the documents from f on
RECURSIVE WriteSoups(_, _, _)
WriteSoups(content, soups, f) ==
    IF f > Len(soups) THEN content
    ELSE WriteSoups(SetKey(content, soups[f].fname, soups[f].soup), soups, f + 1)

\* the documents are not written back at this place
SaveDocsNever ==
    /\ pc = "save"
    /\ pc' = "tree"
    /\ UNCHANGED <<runs, rules, tags, style, occurrences, bkSpine, bkManifest,
                   bkContent, opfManifest, opfSpine, calls, spine_files, root,
                   scanned, file_soups, all_raw_items, idx, context, toc_items,
                   tree, navpoints, ncx, html, toc_id, ret>>

\* lines 402-403: write every parsed document back
SaveDocs ==
    /\ pc = "save"
    /\ bkContent' = WriteSoups(bkContent, file_soups, 1)
    /\ calls' = calls \o [f \in DOMAIN file_soups |->
                            Call("writefile", file_soups[f].fname)]
    /\ pc' = "tree"
    /\ UNCHANGED <<runs, rules, tags, style, occurrences, bkSpine, bkManifest,
                   opfManifest, opfSpine, spine_files, root, scanned, file_soups,
                   all_raw_items, idx, context, toc_items, tree, navpoints, ncx,
                   html, toc_id, ret>>

\* lines 406-424
BuildTree ==
    /\ pc = "tree"
    /\ tree' = build_tree(toc_items)
    /\ pc' = "nav"
    /\ UNCHANGED <<runs, rules, tags, style, occurrences, bkSpine, bkManifest, bkContent,
                   opfManifest, opfSpine, calls, spine_files, root, scanned,
                   file_soups, all_raw_items, idx, context, toc_items, navpoints,
                   ncx, html, toc_id, ret>>

\* lines 427-453
BuildNav ==
    /\ pc = "nav"
    /\ navpoints' = BuildNavpoints(toc_items)
    /\ pc' = "ncx"
    /\ UNCHANGED <<runs, rules, tags, style, occurrences, bkSpine, bkManifest, bkContent,
                   opfManifest, opfSpine, calls, spine_files, root, scanned,
                   file_soups, all_raw_items, idx, context, toc_items, tree, ncx,
                   html, toc_id, ret>>

\* lines 488-530: build the navigation document and add or overwrite it
WriteNcx ==
    /\ pc = "ncx"
    /\ ncx' = BuildNcxDoc(tree, navpoints)
    /\ LET ncx_id == bk_bookpath_to_id(bkManifest, HrefNcx)
       IN  IF ncx_id = ""
           THEN /\ bkManifest' = Append(bkManifest, [id |-> "ncx", href |-> HrefNcx])
                /\ bkContent' = SetKey(bkContent, "ncx", ncx')
                /\ calls' = Append(calls, Call("addfile", "ncx"))
           ELSE /\ bkManifest' = bkManifest
                /\ bkContent' = SetKey(bkContent, ncx_id, ncx')
                /\ calls' = Append(calls, Call("writefile", ncx_id))
    /\ pc' = "html"
    /\ UNCHANGED <<runs, rules, tags, style, occurrences, bkSpine, opfManifest, opfSpine,
                   spine_files, root, scanned, file_soups, all_raw_items, idx,
                   context, toc_items, tree, navpoints, html, toc_id, ret>>

\* lines 535-603: render the HTML page, then look for the containers
BuildHtml ==
    /\ pc = "html"
    /\ html' = generate_html_toc(tree, StyleCls(style), 0, 1, 0)
    /\ IF ~root.has_manifest \/ ~root.has_spine
       THEN pc' = "done" /\ ret' = ReturnNone
       ELSE pc' = "toc" /\ ret' = ret
    /\ UNCHANGED <<runs, rules, tags, style, occurrences, bkSpine, bkManifest, bkContent,
                   opfManifest, opfSpine, calls, spine_files, root, scanned,
                   file_soups, all_raw_items, idx, context, toc_items, tree,
                   navpoints, ncx, toc_id>>

TxtCalibre13 == <<"c","a","l","i","b","r","e","1","3">>
TagA == <<"a">>

\* the TOC page (lines 570-591) as BeautifulSoup reads it back: the heading
\* of the page and the hyperlinks; their nesting in lists is kept in html
TocPage(nodes) ==
    << Tag(<<"h","1">>, [id |-> StrVal(<<"t","o","c">>), class |-> ListVal(<<TxtCalibre13>>)],
           <<StrNode(SyntheticRoot.text)>>) >>
    \o [n \in DOMAIN nodes |->
          Tag(TagA, [href |-> StrVal(nodes[n].src)], <<StrNode(nodes[n].text)>>)]

\* a search of the manifest for the TOC page that finds nothing
FindTocItemNever(items) == {}

\* manifest.find('.//opf:item[@href="toc.html"]'): the positions found
FindTocItem(items) == {i \in DOMAIN items : items[i].href = HrefToc}

\* lines 606-622: add or overwrite the TOC page
WriteToc ==
    /\ pc = "toc"
    /\ LET found == FindTocItem(root.items)
           first == CHOOSE i \in found : \A j \in found : i <= j
       IN  IF found = {}
           THEN /\ toc_id' = "toc"
                /\ root' = [root EXCEPT !.items =
                               Append(@, [id |-> "toc", href |-> HrefToc])]
                /\ bkManifest' = Append(bkManifest, [id |-> "toc", href |-> HrefToc])
                /\ bkContent' = SetKey(bkContent, "toc", TocPage(tree))
                /\ calls' = Append(calls, Call("addfile", "toc"))
           ELSE /\ toc_id' = IF root.items[first].id # "" THEN root.items[first].id
                             ELSE "toc"
                /\ root' = root
                /\ bkManifest' = bkManifest
                /\ bkContent' = SetKey(bkContent, toc_id', TocPage(tree))
                /\ calls' = Append(calls, Call("writefile", toc_id'))
    /\ pc' = "spineins"
    /\ UNCHANGED <<runs, rules, tags, style, occurrences, bkSpine, opfManifest, opfSpine,
                   spine_files, scanned, file_soups, all_raw_items, idx, context,
                   toc_items, tree, navpoints, ncx, html, ret>>

\* getRules(level) raises KeyError: a rule of that level lacks a key it reads
GetRulesRaises(level) ==
    \E i \in DOMAIN rules :
        /\ rules[i].level = level
        /\ ~({"parent_attrs", "child_attrs", "element", "child_element",
              "text_pattern"} \subseteq DOMAIN rules[i])

\* lines 625-666: insert the spine entry, print the report, return
SpineInsert ==
    /\ pc = "spineins"
    /\ IF \E i \in DOMAIN root.itemrefs : root.itemrefs[i] = toc_id
       THEN UNCHANGED <<root, bkSpine, calls>>
       ELSE /\ root' = [root EXCEPT !.itemrefs = <<toc_id>> \o @]
            /\ bkSpine' = bk_spine_insert_before(bkSpine, 1, toc_id)
            /\ calls' = Append(calls, Call("spine_insert_before", toc_id))
    /\ ret' = IF \E level \in {1, 2, 3} : GetRulesRaises(level)
              THEN ReturnPair("KeyError", occurrences)
              ELSE ReturnPair("None", occurrences)
    /\ pc' = "done"
    /\ UNCHANGED <<runs, rules, tags, style, occurrences, bkManifest, bkContent,
                   opfManifest, opfSpine, spine_files, scanned, file_soups,
                   all_raw_items, idx, context, toc_items, tree, navpoints, ncx,
                   html, toc_id>>

\* how many times generate_toc is run on a package, and the largest
\* package (in elements of its content documents) it is run again on
MaxRuns == 2
MaxRerunElems == 1

RECURSIVE SumLen(_, _)
SumLen(content, ids) ==
    IF ids = {} THEN 0
    ELSE LET i == CHOOSE x \in ids : TRUE
         IN  Len(content[i]) + SumLen(content, ids \ {i})

\* the elements of the content documents the package came with
PackageSize == SumLen(bkContent, DOMAIN bkContent \cap {"d1", "d2"})

\* dialogs.py: the next press of the button makes a new MarkupParser on the
\* same package and calls generate_toc again
Restart ==
    /\ pc = "done"
    /\ runs < MaxRuns
    /\ PackageSize <= MaxRerunElems
    /\ runs' = runs + 1
    /\ pc' = "compile"
    /\ occurrences' = 0
    /\ calls' = <<>>
    /\ spine_files' = <<>>
    /\ root' = [has_manifest |-> FALSE, items |-> <<>>, has_spine |-> FALSE,
                itemrefs |-> <<>>]
    /\ scanned' = 0
    /\ file_soups' = <<>>
    /\ all_raw_items' = <<>>
    /\ idx' = 0
    /\ context' = NewContext
    /\ toc_items' = <<>>
    /\ tree' = <<>>
    /\ navpoints' = [nodes |-> <<>>, top |-> <<>>]
    /\ ncx' = [depth |-> <<>>, navMap |-> <<>>]
    /\ html' = <<>>
    /\ toc_id' = ""
    /\ ret' = Running
    /\ UNCHANGED <<rules, tags, style, bkSpine, bkManifest, bkContent,
                   opfManifest, opfSpine>>

Next ==
    \/ CompileRules
    \/ GetSpine
    \/ ScanFile
    \/ CheckEmpty
    \/ NumberItem
    \/ SaveDocs
    \/ BuildTree
    \/ BuildNav
    \/ WriteNcx
    \/ BuildHtml
    \/ WriteToc
    \/ SpineInsert
    \/ Restart

-----------------------------------------------------------------------------
(* Inputs: rule lists, documents and packages the run is started on *)

SeqsUpTo(S, n) == UNION {[1..k -> S] : k \in 0..n}

H1 == <<"h","1">>
H2 == <<"h","2">>
H3 == <<"h","3">>
H4 == <<"h","4">>
H5 == <<"h","5">>
Div == <<"d","i","v">>
Span == <<"s","p","a","n">>
Para == <<"p">>

Rule(level, element, parent_attrs, child_element, child_attrs, text_pattern, case_insensitive, zone_type, display_template) ==
    [level |-> level, element |-> element, parent_attrs |-> parent_attrs,
     child_element |-> child_element, child_attrs |-> child_attrs,
     text_pattern |-> text_pattern, case_insensitive |-> case_insensitive,
     zone_type |-> zone_type, display_template |-> display_template]

\* a rule on the element name and class alone
ClassRule(level, element, cls, zone_type) ==
    Rule(level, element, [class |-> cls], <<>>, [class |-> <<>>], <<"ANY">>, FALSE,
         zone_type, <<>>)

\* an element holding one string
Heading(name, cls, text) ==
    Tag(name, [class |-> ListVal(<<cls>>)], <<StrNode(text)>>)

DocId1 == "d1"
DocId2 == "d2"
Href1 == <<"a",".","x">>
Href2 == <<"b",".","x">>

StyleDefault ==
    [lev \in {<<"1">>, <<"2">>} |->
        IF lev = <<"1">>
        THEN << [k |-> <<"c","l","a","s","s">>, v |-> <<"c","1","3">>] >>
        ELSE << [k |-> <<"c","l","a","s","s">>, v |-> <<"c","1","2">>],
                [k |-> <<"i","d">>, v |-> <<>>] >>]

AllTags == <<H1, H2, H3, H4, H5, Div, Span>>

\* the state at the call of generate_toc on a new MarkupParser(bk, criteria)
InitRun(rs, tgs, st, spine, manifest, content, has_manifest, has_spine) ==
    /\ pc = "compile"
    /\ rules = rs
    /\ tags = tgs
    /\ style = st
    /\ occurrences = 0
    /\ bkSpine = spine
    /\ bkManifest = manifest
    /\ bkContent = content
    /\ opfManifest = has_manifest
    /\ opfSpine = has_spine
    /\ calls = <<>>
    /\ spine_files = <<>>
    /\ root = [has_manifest |-> FALSE, items |-> <<>>, has_spine |-> FALSE,
               itemrefs |-> <<>>]
    /\ scanned = 0
    /\ file_soups = <<>>
    /\ all_raw_items = <<>>
    /\ idx = 0
    /\ context = NewContext
    /\ toc_items = <<>>
    /\ tree = <<>>
    /\ navpoints = [nodes |-> <<>>, top |-> <<>>]
    /\ ncx = [depth |-> <<>>, navMap |-> <<>>]
    /\ html = <<>>
    /\ toc_id = ""
    /\ ret = Running
    /\ runs = 1

\* a package of one content document
OneDoc(rs, soup) ==
    InitRun(rs, AllTags, StyleDefault, <<DocId1>>,
            << [id |-> DocId1, href |-> Href1] >>,
            [i \in {DocId1} |-> soup], TRUE, TRUE)

(* Rule matching: every list of at most MaxClassifyRules rules on every    *)
(* element of ClassifyElems.                                               *)
MaxClassifyRules == 2

C5 == <<"c","5">>
C6 == <<"c","6">>

ClassifyRules ==
    { Rule(1, H1, [class |-> <<>>], <<>>, [class |-> <<>>], <<"ANY">>, FALSE,
           ZFront, <<>>),
      Rule(1, Div, [class |-> C5], Span, [class |-> C6], <<"C", "NUM">>, FALSE,
           ZChapter, <<>>),
      Rule(2, Div, [class |-> <<"^","c",".","*","$">>], <<>>, [class |-> <<>>],
           <<"ANY">>, FALSE, ZChapter, <<>>),
      [level |-> 2, element |-> Div, class |-> <<" ","c","5">>],
      Rule(3, H1, [class |-> <<>>], <<>>, [class |-> <<>>], <<"C", "NUM">>, TRUE,
           ZPart, <<>>),
      Rule(3, Span, [class |-> <<>>], <<>>, [class |-> C6], <<"ANY">>, FALSE,
           ZChapter, <<>>) }

TxtC1 == <<"C","1">>
TxtLowC4 == <<"c","4">>
TxtX == <<"x">>
Blank == <<" ">>

ClassifyElems ==
    { Tag(H1, <<>>, <<StrNode(TxtC1)>>),
      Tag(H1, <<>>, <<StrNode(TxtLowC4)>>),
      Tag(H1, <<>>, <<StrNode(TxtX)>>),
      Tag(Div, [class |-> ListVal(<<C5>>)],
          <<Tag(Span, [class |-> ListVal(<<C6>>)], <<StrNode(TxtC1)>>)>>),
      Tag(Div, [class |-> ListVal(<<C5>>)],
          <<StrNode(Blank), Tag(Span, [class |-> ListVal(<<C6>>)], <<StrNode(TxtC1)>>),
            StrNode(Blank)>>),
      Tag(Div, [class |-> ListVal(<<C5>>)],
          <<Tag(Span, [class |-> ListVal(<<C6>>)], <<StrNode(TxtC1)>>),
            Tag(Span, [class |-> ListVal(<<C6>>)], <<StrNode(TxtX)>>)>>),
      Tag(Div, [class |-> ListVal(<<C6, C5>>)], <<StrNode(TxtC1)>>),
      Tag(Div, [class |-> ListVal(<<TxtX>>)],
          <<Tag(Span, <<>>, <<StrNode(TxtC1)>>)>>),
      Tag(Para, <<>>, <<StrNode(TxtC1)>>) }

InitClassify ==
    \E rs \in SeqsUpTo(ClassifyRules, MaxClassifyRules), e \in ClassifyElems :
        OneDoc(rs, <<e>>)

SpecClassify == InitClassify /\ [][Next]_vars

(* Zone numbering: documents of at most MaxZoneElems headings, level-1   *)
(* headings of the five zones and level-2 headings.                        *)
MaxZoneElems == 4

ClsCh == <<"c","h">>
ClsPt == <<"p","t">>
ClsAp == <<"a","p">>
ClsFm == <<"f","m">>
ClsBm == <<"b","m">>

ZoneRules ==
    << ClassRule(1, H1, ClsCh, ZChapter), ClassRule(1, H1, ClsPt, ZPart),
       ClassRule(1, H1, ClsAp, ZAppendix), ClassRule(1, H1, ClsFm, ZFront),
       ClassRule(1, H1, ClsBm, ZBack), ClassRule(2, H2, <<>>, ZChapter) >>

TxtAb == <<"A","b">>
TxtPre == <<"P","r","e",".">>
TxtIdx == <<"I","d","x">>
TxtS == <<"s">>
TxtOld == <<"o","l","d">>

\* a heading of level 2 or more, which already carries an id
Section(name, text) == Tag(name, [id |-> StrVal(TxtOld)], <<StrNode(text)>>)

ZoneElems ==
    { Heading(H1, ClsCh, TxtAb), Heading(H1, ClsPt, TxtAb),
      Heading(H1, ClsAp, TxtAb), Heading(H1, ClsFm, TxtPre),
      Heading(H1, ClsBm, TxtIdx), Section(H2, TxtS) }

\* the longest run of appendix headings: one past the last letter
MaxAppendices == 27

InitZones ==
    \/ \E soup \in SeqsUpTo(ZoneElems, MaxZoneElems) : OneDoc(ZoneRules, soup)
    \/ \E n \in 1..MaxAppendices :
          OneDoc(ZoneRules, [i \in 1..n |-> Heading(H1, ClsAp, TxtAb)])

SpecZones == InitZones /\ [][Next]_vars

(* Section numbering and nesting: documents of at most MaxLevelElems       *)
(* headings, chapters and headings of the levels 2 to 5.                   *)
MaxLevelElems == 4

LevelRules ==
    << ClassRule(1, H1, <<>>, ZChapter), ClassRule(2, H2, <<>>, ZChapter),
       ClassRule(3, H3, <<>>, ZChapter), ClassRule(4, H4, <<>>, ZChapter),
       ClassRule(5, H5, <<>>, ZChapter) >>

LevelElems ==
    { Heading(H1, ClsCh, TxtAb), Section(H2, TxtS), Section(H3, TxtS),
      Section(H4, TxtS), Section(H5, TxtS) }

InitLevels ==
    \E soup \in SeqsUpTo(LevelElems, MaxLevelElems) : OneDoc(LevelRules, soup)

SpecLevels == InitLevels /\ [][Next]_vars

(* Nesting: documents of at most MaxTreeElems headings of the levels 1 to  *)
(* 3.                                                                      *)
MaxTreeElems == 5

TreeElems == { Heading(H1, ClsCh, TxtAb), Section(H2, TxtS), Section(H3, TxtS) }

InitTree ==
    \E soup \in SeqsUpTo(TreeElems, MaxTreeElems) : OneDoc(LevelRules, soup)

SpecTree == InitTree /\ [][Next]_vars

(* Display texts: one rule for h1, of any zone, pattern and template, on   *)
(* documents of at most MaxDisplayElems headings.                          *)
MaxDisplayElems == 2

\* C, a number, separators, the rest: two groups, as ^C(\d+)[\s:]*(.*)
PatNumRest == <<"C", "NUM", "SEP", "REST">>
\* C and a number: one group
PatNum == <<"C", "NUM">>
\* no group
PatAny == <<"ANY">>
\* an optional number that takes part in no match of a text without digits
PatOptNum == <<"OPTNUM", "REST">>

TplNumText == <<"{num}", ":", "{text}">>
TplRaw == <<"<", "{raw}">>
TplTitle == <<"{title}">>

DisplayRules ==
    { <<Rule(1, H1, [class |-> <<>>], <<>>, [class |-> <<>>], pat, FALSE, zone,
             tpl)>> :
        pat \in {PatNumRest, PatNum, PatAny},
        zone \in {ZChapter, ZPart, ZAppendix, ZFront, ZBack},
        tpl \in {TplNumText, TplRaw, <<>>} }

TxtC5Ab == <<"C","5",":"," ","A","b">>
TxtC7 == <<"C","7">>

DisplayElems ==
    { Heading(H1, <<>>, TxtC5Ab), Heading(H1, <<>>, TxtC7),
      Heading(H1, <<>>, TxtAb) }

InitDisplay ==
    \E rs \in DisplayRules, soup \in SeqsUpTo(DisplayElems, MaxDisplayElems) :
        OneDoc(rs, soup)

SpecDisplay == InitDisplay /\ [][Next]_vars

(* Capture groups: one rule for h1 whose pattern has an optional first    *)
(* group or no group, and one for h2, on documents of at most              *)
(* MaxGroupElems headings with and without leading digits.                 *)
MaxGroupElems == 3

GroupRules ==
    { <<Rule(1, H1, [class |-> <<>>], <<>>, [class |-> <<>>], pat, FALSE, zone,
             tpl),
        ClassRule(2, H2, <<>>, ZChapter)>> :
        pat \in {PatOptNum, PatAny},
        zone \in {ZChapter, ZFront},
        tpl \in {TplNumText, <<>>} }

Txt7Ab == <<"7","A","b">>

GroupElems ==
    { Heading(H1, <<>>, Txt7Ab), Heading(H1, <<>>, TxtAb), Section(H2, TxtS) }

InitGroups ==
    \E rs \in GroupRules, soup \in SeqsUpTo(GroupElems, MaxGroupElems) :
        OneDoc(rs, soup)

SpecGroups == InitGroups /\ [][Next]_vars

(* The functions on text and attributes: a run of 1..MaxParts part        *)
(* headings; one frontmatter heading of every text of at most MaxSlugLen   *)
(* characters of SlugChars; one div of every attribute set of AttrSets     *)
(* under one rule of every required map of RequiredMaps.                   *)
MaxParts == 10
MaxSlugLen == 3

SlugChars == {"A", "b", "1", "-", "!", " "}
TxtTocItem == <<"T","o","c"," ","I","t","e","m">>

AttrSets ==
    { <<>>,
      [class |-> ListVal(<<C5>>)],
      [class |-> ListVal(<<C6, C5>>)],
      [id |-> StrVal(C5)],
      [accesskey |-> ListVal(<<C6, C5>>)],
      [class |-> ListVal(<<C5>>), id |-> StrVal(C6)] }

RequiredMaps ==
    { <<>>,
      [class |-> C5],
      [class |-> <<"c","6"," ","c","5">>],
      [class |-> <<"^","c","5","$">>],
      [class |-> <<"c",".","*","5">>],
      [class |-> <<"6","$">>],
      [class |-> <<"^","c">>],
      [class |-> <<"*","c","$">>],
      [id |-> <<>>],
      [id |-> C5],
      [accesskey |-> <<"c","6"," ","c","5">>],
      [class |-> C5, id |-> C6] }

InitPure ==
    \/ \E n \in 1..MaxParts :
          OneDoc(ZoneRules, [i \in 1..n |-> Heading(H1, ClsPt, TxtAb)])
    \/ \E t \in SeqsUpTo(SlugChars, MaxSlugLen) \cup {TxtTocItem} :
          OneDoc(ZoneRules, <<Heading(H1, ClsFm, t)>>)
    \/ \E attrs \in AttrSets, required \in RequiredMaps :
          OneDoc(<<Rule(1, Div, required, <<>>, [class |-> <<>>], <<"ANY">>,
                        FALSE, ZChapter, <<>>)>>,
                 <<Tag(Div, attrs, <<StrNode(TxtAb)>>)>>)

SpecPure == InitPure /\ [][Next]_vars

(* Whole runs: every kind of rule list on packages of at most two          *)
(* documents in reading order holding at most MaxMainElems headings, with  *)
(* or without the manifest and spine containers, an earlier navigation     *)
(* document and an earlier TOC page.                                       *)
MaxMainElems == 2

RunRules ==
    { <<ClassRule(1, H1, <<>>, ZChapter), ClassRule(2, H2, <<>>, ZChapter)>>,
      <<[level |-> 1, element |-> H1, class |-> <<>>]>>,
      <<Rule(1, H1, [class |-> <<>>], <<>>, [class |-> <<>>], <<"BAD">>, FALSE,
             ZChapter, <<>>)>>,
      <<Rule(1, H1, [class |-> <<>>], <<>>, [class |-> <<>>], PatAny, FALSE,
             ZChapter, TplTitle)>>,
      <<Rule(1, H1, [class |-> <<>>], <<>>, [class |-> <<>>], PatOptNum, FALSE,
             ZChapter, <<>>)>>,
      <<ClassRule(1, H1, <<>>, ZChapter),
        Rule(1, H2, [class |-> <<>>], <<>>, [class |-> <<>>], PatAny, FALSE,
             ZChapter, TplTitle)>> }

RunElems == { Heading(H1, ClsCh, TxtAb), Section(H2, TxtS) }

OldNcx == [id |-> "ncx0", href |-> HrefNcx]
OldToc == [id |-> "toc0", href |-> HrefToc]

Init ==
    \E rs \in RunRules,
       s1 \in SeqsUpTo(RunElems, MaxMainElems),
       s2 \in SeqsUpTo(RunElems, MaxMainElems),
       spine \in {<<>>, <<DocId1>>, <<DocId1, DocId2>>},
       old \in SUBSET {OldNcx, OldToc},
       has_manifest \in BOOLEAN, has_spine \in BOOLEAN :
        /\ Len(s1) + Len(s2) <= MaxMainElems
        /\ InitRun(rs, AllTags, StyleDefault, spine,
                   << [id |-> DocId1, href |-> Href1],
                      [id |-> DocId2, href |-> Href2] >>
                   \o (IF OldNcx \in old THEN <<OldNcx>> ELSE <<>>)
                   \o (IF OldToc \in old THEN <<OldToc>> ELSE <<>>),
                   [i \in {DocId1, DocId2} \cup {o.id : o \in old} |->
                      IF i = DocId1 THEN s1 ELSE IF i = DocId2 THEN s2 ELSE <<>>],
                   has_manifest, has_spine)

Spec == Init /\ [][Next]_vars

-----------------------------------------------------------------------------
(* Properties *)

Min(S) == CHOOSE m \in S : \A x \in S : m <= x

\* the text a rule matches its pattern against
RuleText(elem, rule) ==
    IF Strip(Get(rule, "child_element", <<>>)) = <<>> THEN GetText(elem)
    ELSE GetText(NonBlankChildren(elem)[1])

\* the four conditions of a rule on an element
RuleHolds(elem, rule) ==
    /\ elem.name = rule.element
    /\ attrs_match(elem.attrs, ParentAttrs(rule))
    /\ LET child_element == Strip(Get(rule, "child_element", <<>>))
           children == NonBlankChildren(elem)
       IN  child_element # <<>> =>
             /\ Len(children) = 1
             /\ children[1].name = child_element
             /\ attrs_match(children[1].attrs, ChildAttrs(rule))
    /\ PatMatch(rule.compiled_pattern, RuleText(elem, rule)).ok

Holding(elem) == {i \in DOMAIN rules : RuleHolds(elem, rules[i])}

\* the records collected for the element at path of document fname
ItemsOf(fname, path) ==
    SelectSeq(all_raw_items, LAMBDA it : it.elem = <<fname, path>>)

\* C1: once the scan is complete, every scanned element is classified by
\* the lowest-index rule whose four conditions hold on it, and has no
\* classification and no record when no rule holds.
C1_FirstRuleWins ==
    pc = "check" =>
      \A f \in DOMAIN file_soups :
        \A path \in Range(FindAll(file_soups[f].soup, tags, 1)) :
          LET elem == NodeAt(file_soups[f].soup, path)
              c == classify_heading(rules, elem)
              got == ItemsOf(file_soups[f].fname, path)
          IN  IF Holding(elem) = {}
              THEN ~c.matched /\ c = NoMatch /\ got = <<>>
              ELSE LET rule == rules[Min(Holding(elem))]
                   IN  /\ c.matched
                       /\ c.level = rule.level
                       /\ c.text = RuleText(elem, rule)
                       /\ c.zone_type = Get(rule, "zone_type", ZChapter)
                       /\ c.display_template = Get(rule, "display_template", <<>>)
                       /\ c.compiled_pattern = rule.compiled_pattern
                       /\ Len(got) = 1
                       /\ got[1].level = rule.level
                       /\ got[1].raw_text = c.text
                       /\ got[1].zone_type = c.zone_type

\* C1 witness: an element on which two rules of different levels hold has
\* been classified
C1_Witness ==
    /\ pc = "check"
    /\ all_raw_items # <<>>
    /\ \E f \in DOMAIN file_soups :
         \E path \in Range(FindAll(file_soups[f].soup, tags, 1)) :
           \E i, j \in Holding(NodeAt(file_soups[f].soup, path)) :
              i < j /\ rules[i].level # rules[j].level

-----------------------------------------------------------------------------
(* Numbering *)

\* the records the numbering loop has been through
Processed == 1..(idx - 1)

\* the rank of record i among the level-1 records of its zone
ZoneRank(i) ==
    Cardinality({j \in 1..i : /\ all_raw_items[j].level = 1
                              /\ all_raw_items[j].zone_type =
                                    all_raw_items[i].zone_type})

\* the nearest level-1 record before record i, 0 when there is none
NearestL1(i) ==
    LET before == {j \in 1..(i - 1) : all_raw_items[j].level = 1}
    IN  IF before = {} THEN 0 ELSE Max(before)

Dec(n) == <<Digits[n + 1]>>

RomanLower ==
    << <<"i">>, <<"i","i">>, <<"i","i","i">>, <<"i","v">>, <<"v">>, <<"v","i">> >>

\* C2: the k-th level-1 heading of the chapter zone has the anchor k, the
\* k-th of the part zone part- and the lowercase roman numeral of k, the
\* k-th of the appendix zone (k up to 26) app- and the k-th lowercase
\* letter, whatever is interleaved.
C2_ZonesNumberIndependently ==
    \A i \in Processed :
      LET item == all_raw_items[i]
          k == ZoneRank(i)
      IN  item.level = 1 =>
            /\ item.zone_type = ZChapter => item.anchor_id = Dec(k)
            /\ item.zone_type = ZPart =>
                 item.anchor_id = <<"p","a","r","t","-">> \o RomanLower[k]
            /\ item.zone_type = ZAppendix /\ k <= 26 =>
                 item.anchor_id = <<"a","p","p","-", LowerAlpha[k]>>

\* C2 witness: a second chapter numbered after a part, an appendix and a
\* level-2 heading
C2_Witness ==
    /\ pc = "save"
    /\ \E i \in Processed :
         /\ all_raw_items[i].zone_type = ZChapter
         /\ all_raw_items[i].level = 1
         /\ ZoneRank(i) = 2
         /\ \E j \in 1..(i - 1) : all_raw_items[j].level = 2
         /\ \E j \in 1..(i - 1) : /\ all_raw_items[j].level = 1
                                  /\ all_raw_items[j].zone_type # ZChapter

\* the number of records of the levels in L after record p, up to record i
CountUnder(p, i, L) ==
    Cardinality({j \in (p + 1)..i : all_raw_items[j].level \in L})

\* C3: the level-2 headings after the k-th chapter and before the next
\* level-1 heading have the anchors k-1, k-2, ..., from 1 under each chapter.
C3_SectionsRestartPerChapter ==
    \A i \in Processed :
      LET item == all_raw_items[i]
          p == NearestL1(i)
      IN  item.level = 2 /\ p # 0 /\ all_raw_items[p].zone_type = ZChapter =>
            item.anchor_id =
               Dec(ZoneRank(p)) \o <<"-">> \o Dec(CountUnder(p, i, {2}))

\* C3 witness: the second chapter's first level-2 heading is numbered after
\* the first chapter had one
C3_Witness ==
    /\ pc = "save"
    /\ \E i, j \in Processed :
         /\ i < j
         /\ all_raw_items[i].anchor_id = <<"1","-","1">>
         /\ all_raw_items[j].anchor_id = <<"2","-","1">>

SectionClass(level) == IF level >= 4 THEN {4, 5} ELSE {level}

SectionMark(level) ==
    IF level = 2 THEN <<>> ELSE IF level = 3 THEN <<"s">> ELSE <<"s","s">>

\* the records numbered under the level-1 record p so far
Under(p) ==
    {j \in Processed : j > p /\ all_raw_items[j].level # 1 /\ NearestL1(j) = p}

\* C4: a heading of level 2 or more under the parent anchor P has the anchor
\* P-n (level 2), P-sn (level 3) or P-ssn (every level from 4 on), n counting
\* the headings of its class under the parent; the parent's three counters
\* hold exactly the numbers of headings of each class numbered under it.
C4_AnchorByLevelClass ==
    /\ \A i \in Processed :
         LET item == all_raw_items[i]
             p == NearestL1(i)
         IN  item.level >= 2 /\ p # 0 =>
               item.anchor_id =
                  all_raw_items[p].anchor_id \o <<"-">> \o SectionMark(item.level)
                     \o Dec(CountUnder(p, i, SectionClass(item.level)))
    /\ \A p \in Processed :
         all_raw_items[p].level = 1 =>
           LET P == all_raw_items[p].anchor_id
               n(L) == Cardinality({j \in Under(p) : all_raw_items[j].level \in L})
           IN  IF Under(p) = {} THEN P \notin DOMAIN context.section_counters
               ELSE /\ P \in DOMAIN context.section_counters
                    /\ context.section_counters[P] =
                          [sec2 |-> n({2}), sec3 |-> n({3}),
                           sec4 |-> n(SectionClass(4))]

\* C4 witness: a level-5 heading takes the second number of the counter a
\* level-4 heading took the first of, after a heading of level 3
C4_Witness ==
    /\ pc = "save"
    /\ \E i, j \in Processed :
         /\ i < j
         /\ all_raw_items[i].level = 4
         /\ all_raw_items[j].level = 5
         /\ all_raw_items[j].anchor_id = <<"1","-","s","s","2">>
         /\ context.section_counters[<<"1">>] = [sec2 |-> 0, sec3 |-> 1, sec4 |-> 2]

\* a heading of level 2 or more with no level-1 heading before it
Orphan(i) == all_raw_items[i].level # 1 /\ NearestL1(i) = 0

Numbered == {i \in Processed : ~Orphan(i)}

TreeBuilt == pc \in {"nav", "ncx", "html", "toc", "spineins", "done"} /\ idx > Len(all_raw_items)
NcxBuilt == pc \in {"html", "toc", "spineins", "done"} /\ idx > Len(all_raw_items)
HtmlBuilt == pc \in {"toc", "spineins", "done"} /\ idx > Len(all_raw_items)

Links == SelectSeq(html, LAMBDA line : line.kind = "li")

\* the numbering loop is at an orphan
AtOrphan == pc = "number" /\ idx <= Len(all_raw_items) /\ Orphan(idx)

\* C5: the pass of the numbering loop over an orphan changes neither the
\* documents, the counters, the records nor the occurrence count and goes on
\* to the next heading; an orphan never has an anchor or a display text, the
\* occurrence count and the entries of the record list, the tree, the
\* navigation document and the HTML page are those of the other headings, and
\* the run reports no error.
C5_OrphanDropped ==
    /\ [][AtOrphan =>
             /\ file_soups' = file_soups
             /\ context' = context
             /\ toc_items' = toc_items
             /\ occurrences' = occurrences
             /\ idx' = idx + 1
             /\ pc' \in {"number", "save"}
             /\ ret' = ret]_vars
    /\ [](/\ \A i \in Processed :
               Orphan(i) => /\ all_raw_items[i].anchor_id = None
                            /\ all_raw_items[i].display_text = None
          /\ (\A i \in Processed : Orphan(i)) => context.section_counters = <<>>
          /\ occurrences = Cardinality(Numbered)
          /\ idx >= 1 => Len(toc_items) = 1 + Cardinality(Numbered)
          /\ TreeBuilt => Len(tree) = Cardinality(Numbered)
          /\ NcxBuilt => Len(ncx.navMap) = 1 + Cardinality(Numbered)
          /\ HtmlBuilt => Len(Links) = Cardinality(Numbered)
          /\ ret \in {Running, ReturnPair("None", occurrences)})

\* C5 witness: a run over two orphans, a chapter and a section of it has
\* returned
C5_Witness ==
    /\ pc = "done"
    /\ Len(all_raw_items) = 4
    /\ Orphan(1) /\ Orphan(2) /\ ~Orphan(3) /\ ~Orphan(4)
    /\ all_raw_items[4].level = 2
    /\ occurrences = 2

-----------------------------------------------------------------------------
(* Tree and navigation document *)

\* the levels of the records after the synthetic one
Levels == [i \in 1..(Len(toc_items) - 1) |-> toc_items[i + 1].level]

\* C6: in the built tree every child has a level strictly greater than its
\* parent's, and a node's parent is the nearest earlier node of a smaller
\* level (the top-level list when there is none).
C6_ChildrenDeeper ==
    TreeBuilt =>
      \A n \in DOMAIN tree :
        LET smaller == {m \in 1..(n - 1) : tree[m].level < tree[n].level}
        IN  /\ tree[n].parent # 0 => tree[tree[n].parent].level < tree[n].level
            /\ tree[n].parent = IF smaller = {} THEN 0 ELSE Max(smaller)

\* C6: a tree has been built from the levels 1,3,3
C6_GapReached == TreeBuilt /\ Levels = <<1, 3, 3>>

OneTwoThreeTwoOne == TreeBuilt /\ Levels = <<1, 2, 3, 2, 1>>

\* C7 as stated: on 1,2,3,2,1 there are two top-level nodes, the first has
\* one child, of level 2, which has one child, of level 3, and the second
\* has none.
C7_FirstHasOneChild ==
    OneTwoThreeTwoOne =>
      LET top == Children(tree, 0)
      IN  /\ Len(top) = 2
          /\ Len(Children(tree, top[1])) = 1
          /\ tree[Children(tree, top[1])[1]].level = 2
          /\ Len(Children(tree, Children(tree, top[1])[1])) = 1
          /\ tree[Children(tree, Children(tree, top[1])[1])[1]].level = 3
          /\ Children(tree, top[2]) = <<>>

\* C7 amended: on 1,2,3,2,1 there are two top-level nodes; the first has two
\* children, of level 2, the first of which has one child, of level 3, and
\* the second of which has none; the second top-level node has none.
C7_FirstHasTwoChildren ==
    OneTwoThreeTwoOne =>
      LET top == Children(tree, 0)
          kids == Children(tree, top[1])
      IN  /\ top = <<1, 5>>
          /\ kids = <<2, 4>>
          /\ tree[2].level = 2 /\ tree[4].level = 2
          /\ Children(tree, 2) = <<3>>
          /\ tree[3].level = 3
          /\ Children(tree, 3) = <<>>
          /\ Children(tree, 4) = <<>>
          /\ Children(tree, 5) = <<>>

\* C7 witness: the tree of 1,2,3,2,1 has been built
C7_Witness == OneTwoThreeTwoOne /\ Len(tree) = 5

TxtContents ==
    <<"T","a","b","l","e"," ","o","f"," ","C","o","n","t","e","n","t","s">>

\* C8: the navPoint elements in document order have the play orders 1, 2,
\* 3, ... and the ids navPoint-1, navPoint-2, ...; the first is the synthetic
\* Table of Contents, at the top; the others are the headings in discovery
\* order, each below an earlier element.
C8_PlayOrder ==
    NcxBuilt =>
      /\ Len(ncx.navMap) = Len(toc_items)
      /\ \A i \in DOMAIN ncx.navMap :
           /\ ncx.navMap[i].playOrder = Dec(i)
           /\ ncx.navMap[i].id = <<"n","a","v","P","o","i","n","t","-">> \o Dec(i)
           /\ ncx.navMap[i].src = toc_items[i].file \o <<"#">> \o toc_items[i].anchor
           /\ ncx.navMap[i].parent \in 0..(i - 1)
      /\ ncx.navMap[1].text = TxtContents
      /\ ncx.navMap[1].parent = 0
      /\ ncx.navMap[1].src = <<"t","o","c",".","h","t","m","l","#","t","o","c">>

\* C8 witness: a navigation document with a nested navPoint followed by a
\* top-level one
C8_Witness ==
    /\ NcxBuilt
    /\ Len(ncx.navMap) >= 4
    /\ ncx.navMap[3].parent = 2
    /\ ncx.navMap[4].parent = 0

-----------------------------------------------------------------------------
(* Display texts and results *)

\* C9: a level-1 heading of the chapter, frontmatter or backmatter zone
\* whose rule has a template is displayed as the template with the number
\* token captured by the rule's pattern for {num}, the clean title for
\* {text} and the raw text for {raw}; of the part and appendix zones, with
\* the generated roman numeral or letter for {num}.
C9_TemplateFields ==
    \A i \in Processed :
      LET item == all_raw_items[i]
          ex == extract_clean_text_and_number(item.raw_text,
                                              item.compiled_pattern)
          shown(num) ==
              Format(item.display_template, num, ex.text, item.raw_text).s
      IN  item.level = 1 /\ item.display_template # <<>> =>
            item.display_text =
               CASE item.zone_type = ZPart -> shown(int_to_roman(ZoneRank(i)))
                 [] item.zone_type = ZAppendix ->
                      shown(<<Upper[ZoneRank(i)]>>)
                 [] OTHER -> shown(ex.num)

\* C9: a chapter heading C5: Ab has been displayed through the template
\* {num}:{text}
C9_Reached ==
    \E i \in Processed :
      /\ all_raw_items[i].zone_type = ZChapter
      /\ all_raw_items[i].raw_text = TxtC5Ab
      /\ all_raw_items[i].display_template = TplNumText
      /\ all_raw_items[i].compiled_pattern.atoms = PatNumRest
      /\ all_raw_items[i].display_text = <<"1", ":", "A", "b">>

\* C10: every run that has ended has returned a pair of an error or None
\* and the occurrence count.
C10_ReturnsPair ==
    pc = "done" => ret.kind = "pair" /\ ret.occ = occurrences

\* C10: a run on a package without a manifest container has ended, after
\* writing the documents and the navigation document
C10_Reached ==
    /\ pc = "done"
    /\ ~opfManifest
    /\ occurrences > 0
    /\ ret = ReturnNone

-----------------------------------------------------------------------------
(* Writes to the host package *)

\* the run got to the test for the manifest and spine containers and one of
\* them is missing
ContainerMissing ==
    pc = "done" /\ ret = ReturnNone /\ (~opfManifest \/ ~opfSpine)

\* C11: a run on a package whose description lacks the manifest or the spine
\* container ends with an error reported and with no write issued to the
\* host package.
C11_NothingWrittenWithoutContainers ==
    ContainerMissing => calls = <<>> /\ ret.kind = "pair" /\ ret.err # "None"

\* C11: a run on a package without a spine container has ended after
\* rewriting a document and adding the navigation document
C11_Reached ==
    /\ ContainerMissing
    /\ ~opfSpine
    /\ calls = <<Call("writefile", "d1"), Call("addfile", "ncx")>>

\* every document of the reading order has been scanned and nothing matched
NoMatchRun ==
    /\ spine_files # <<>>
    /\ scanned = Len(spine_files)
    /\ all_raw_items = <<>>

\* C12: a run in which no element matched a rule returns (None, 0), issues
\* no write and leaves the reading order, the manifest and the contents of
\* the host package as they were.
C12_NoMatchNoWrite ==
    /\ [](all_raw_items = <<>> => calls = <<>>)
    /\ [](pc = "done" /\ NoMatchRun => ret = ReturnPair("None", 0))
    /\ [](NoMatchRun => pc \in {"check", "done"})
    /\ [][NoMatchRun => UNCHANGED <<bkSpine, bkManifest, bkContent>>]_vars

\* C12 witness: a run over a document with an element no rule matches has
\* returned
C12_Witness ==
    /\ pc = "done"
    /\ NoMatchRun
    /\ \E f \in DOMAIN file_soups : file_soups[f].soup # <<>>

WithHref(href) == {i \in DOMAIN bkManifest : bkManifest[i].href = href}

TocRefs ==
    {i \in DOMAIN bkSpine :
        \E m \in WithHref(HrefToc) : bkManifest[m].id = bkSpine[i]}

\* C13: over successive runs the package never holds two resources for the
\* TOC page, two for the navigation document or two spine references to the
\* TOC page; no manifest entry changes, and a step adds an entry only for a
\* path that has none.
C13_OneResourceEach ==
    /\ [](/\ Cardinality(WithHref(HrefToc)) <= 1
          /\ Cardinality(WithHref(HrefNcx)) <= 1
          /\ Cardinality(TocRefs) <= 1)
    /\ [][/\ \A i \in DOMAIN bkManifest :
               i \in DOMAIN bkManifest' /\ bkManifest'[i] = bkManifest[i]
          /\ \A i \in DOMAIN bkManifest' \ DOMAIN bkManifest :
               WithHref(bkManifest'[i].href) = {}]_vars

\* C13 witness: a second run has overwritten the TOC page and the navigation
\* document the first run added, and has inserted nothing
C13_Witness ==
    /\ pc = "done"
    /\ runs = 2
    /\ Call("writefile", "toc") \in Range(calls)
    /\ Call("writefile", "ncx") \in Range(calls)
    /\ Call("spine_insert_before", "toc") \notin Range(calls)
    /\ Cardinality(TocRefs) = 1

\* the run has inserted a spine reference
Inserted == \E c \in Range(calls) : c.op = "spine_insert_before"

\* C14: after a run that inserted a reference to the TOC page, the page is
\* the first entry of the reading order; a run that found a reference
\* inserts none, so that the page is referenced once.
C14_TocFirst ==
    pc = "done" /\ toc_id # "" =>
      /\ Inserted => bkSpine[1] = toc_id
      /\ Cardinality({i \in DOMAIN bkSpine : bkSpine[i] = toc_id}) = 1

\* C14: a run on a package of one document has inserted the reference
C14_Reached ==
    /\ pc = "done"
    /\ Inserted
    /\ bkSpine = <<"d1", "toc">>

-----------------------------------------------------------------------------
(* The two renderings of the record list *)

\* the nesting depth of navPoint element e: 1 directly under navMap
RECURSIVE ElDepth(_, _)
ElDepth(navMap, e) ==
    IF navMap[e].parent = 0 THEN 1 ELSE 1 + ElDepth(navMap, navMap[e].parent)

\* the navPoint elements of the headings: all but the first, the synthetic one
HeadingPoints == {e \in DOMAIN ncx.navMap : e > 1}

NavDepth ==
    IF HeadingPoints = {} THEN 0
    ELSE Max({ElDepth(ncx.navMap, e) : e \in HeadingPoints})

\* C15: dtb:depth is the greatest nesting depth of the navPoints of the
\* headings under navMap, and 1 when there is none.
C15_DepthOfNavMap ==
    NcxBuilt => ncx.depth = Dec(IF NavDepth = 0 THEN 1 ELSE NavDepth)

\* C15: the navigation document of the levels 1,3,3 has been built: its
\* navPoints nest two deep and dtb:depth says 3
C15_Reached ==
    /\ NcxBuilt
    /\ Levels = <<1, 3, 3>>
    /\ NavDepth = 2
    /\ ncx.depth = <<"3">>

\* the attribute string of level L under the default styles: the pairs with a
\* non-empty value
StyleByLevel(L) ==
    CASE L = 1 -> <<"c","l","a","s","s","=","\"","c","1","3","\"">>
      [] L = 2 -> <<"c","l","a","s","s","=","\"","c","1","2","\"">>
      [] OTHER -> <<>>

\* C16: the hyperlink of every node of the HTML page carries the attribute
\* string of the node's heading level, the empty string when the level has
\* no style.
C16_StyleByHeadingLevel ==
    HtmlBuilt /\ style = StyleDefault =>
      /\ Len(Links) = Len(tree)
      /\ \A i \in DOMAIN Links : Links[i].cls = StyleByLevel(tree[i].level)

\* C16: the page of the levels 1,3 has been built; the level-3 heading, one
\* list below the level-1 heading, carries the style of level 2
C16_Reached ==
    /\ HtmlBuilt
    /\ Levels = <<1, 3>>
    /\ Links[2].cls = StyleByLevel(2)
    /\ Links[2].indent = 2

\* the list item link i is nested directly under, 0 for the outermost list
HtmlParent(i) ==
    LET up == {j \in 1..(i - 1) : Links[j].indent < Links[i].indent}
    IN  IF up = {} THEN 0 ELSE Max(up)

\* the heading whose navPoint holds the navPoint of heading i, 0 for navMap
NavParent(i) ==
    IF ncx.navMap[i + 1].parent = 0 THEN 0 ELSE ncx.navMap[i + 1].parent - 1

\* C17: the navigation document and the HTML page nest the headings alike:
\* heading B is directly under heading A in navMap exactly when B's list
\* item is directly under A's.
C17_SameNesting ==
    HtmlBuilt =>
      /\ Len(Links) = Len(ncx.navMap) - 1
      /\ \A i \in DOMAIN Links : HtmlParent(i) = NavParent(i)

\* C17: both renderings of the levels 1,3,3 have been built: the second
\* level-3 heading is under the level-1 heading in navMap and under the
\* first level-3 heading in the page
C17_Reached ==
    /\ HtmlBuilt
    /\ Levels = <<1, 3, 3>>
    /\ NavParent(3) = 1
    /\ HtmlParent(3) = 2

-----------------------------------------------------------------------------
(* The synthetic record *)

TocSrc == <<"t","o","c",".","h","t","m","l","#","t","o","c">>

\* the records of the headings that have an anchor, in discovery order
Anchored == SelectSeq(all_raw_items, LAMBDA it : it.anchor_id # None)

-----------------------------------------------------------------------------
(* Capture groups and the occurrence count *)

\* the pattern of the record matches its text without a first group: it has
\* no group, or its first group took no part in the match
NoGroup(item) ==
    LET match == PatMatch(item.compiled_pattern, item.raw_text)
    IN  match.ok /\ (match.groups = <<>> \/ match.groups[1] = None)

\* C19: a level-1 heading whose pattern gives no first group is numbered all
\* the same: its number token is empty and its clean title the trimmed raw
\* text, it gets the anchor of its zone, and the run is never stopped by the
\* missing group.
C19_DegradesWithoutGroups ==
    /\ \A i \in DOMAIN all_raw_items :
         LET item == all_raw_items[i]
             ex == extract_clean_text_and_number(item.raw_text,
                                                 item.compiled_pattern)
         IN  item.level = 1 /\ NoGroup(item) =>
               ~ex.raised /\ ex.num = <<>> /\ ex.text = Strip(item.raw_text)
    /\ ret.err # "AttributeError"
    /\ \A i \in Processed :
         all_raw_items[i].level = 1 /\ NoGroup(all_raw_items[i]) =>
           all_raw_items[i].anchor_id =
             IF all_raw_items[i].zone_type = ZChapter
             THEN Dec(ZoneRank(i))
             ELSE <<"f","r","o","n","-">>
                  \o safe_id_from_text(all_raw_items[i].raw_text)

\* C19: the run has stopped with AttributeError at a heading without digits
\* whose pattern has an optional first group, after numbering a heading with
\* digits
C19_Reached ==
    /\ pc = "done"
    /\ ret.err = "AttributeError"
    /\ idx = 2
    /\ all_raw_items[1].anchor_id # None
    /\ all_raw_items[2].raw_text = TxtAb
    /\ all_raw_items[2].compiled_pattern.atoms = PatOptNum
    /\ all_raw_items[2].anchor_id = None

\* C20: the occurrence count is at every moment the number of headings that
\* have an anchor, one less than the number of records (the synthetic one is
\* not counted); a run that returns a pair returns that count, and a run that
\* returns without error the number of matched headings that are no orphans.
C20_CountIsAnchored ==
    /\ occurrences = Len(Anchored)
    /\ toc_items # <<>> => occurrences = Len(toc_items) - 1
    /\ pc = "done" /\ ret.kind = "pair" => ret.occ = Len(Anchored)
    /\ pc = "done" /\ ret.kind = "pair" /\ ret.err = "None" =>
         ret.occ = Cardinality({i \in DOMAIN all_raw_items : ~Orphan(i)})

\* C20 witness: a run over an orphan, a heading that was numbered and a
\* heading that raised has returned the error and the count 1
C20_Witness ==
    /\ pc = "done"
    /\ ret = ReturnPair("AttributeError", 1)
    /\ Len(all_raw_items) = 3
    /\ Orphan(1)
    /\ all_raw_items[2].anchor_id # None
    /\ idx = 3

-----------------------------------------------------------------------------
(* The order of the writes *)

\* the manifest entry of resource id has the path href
IsAt(id, href) == \E m \in DOMAIN bkManifest : bkManifest[m] = [id |-> id, href |-> href]

\* C21: the calls a run has issued are, in this order, one writefile per
\* parsed document, then the add or overwrite of the navigation document,
\* then that of the TOC page, then the spine insertion; the first of them is
\* issued when every document of the reading order is scanned and the
\* numbering loop is over.
C21_WriteOrder ==
    calls # <<>> =>
      LET n == Len(file_soups)
      IN  /\ scanned = Len(spine_files)
          /\ idx > Len(all_raw_items)
          /\ n >= 1
          /\ Len(calls) \in n..(n + 3)
          /\ \A k \in 1..n : calls[k] = Call("writefile", file_soups[k].fname)
          /\ Len(calls) > n =>
               /\ calls[n + 1].op \in {"addfile", "writefile"}
               /\ IsAt(calls[n + 1].id, HrefNcx)
          /\ Len(calls) > n + 1 =>
               /\ calls[n + 2].op \in {"addfile", "writefile"}
               /\ calls[n + 2].id = toc_id
               /\ IsAt(toc_id, HrefToc)
          /\ Len(calls) > n + 2 => calls[n + 3] = Call("spine_insert_before", toc_id)

\* C21 witness: a run over two documents has issued its five calls
C21_Witness ==
    /\ pc = "done"
    /\ Len(file_soups) = 2
    /\ Len(calls) = 5
    /\ calls[5].op = "spine_insert_before"

-----------------------------------------------------------------------------
(* Roman numerals *)

MaxRoman == 2000

\* one decimal digit d in roman symbols: one, five and ten of its place
RomanDigit(d, one, five, ten) ==
    CASE d <= 3 -> Repeat(one, d)
      [] d = 4 -> one \o five
      [] d <= 8 -> five \o Repeat(one, d - 5)
      [] OTHER -> one \o ten

\* the standard numeral of n, 1 <= n <= 3999
StdRoman(n) ==
    Repeat(<<"M">>, n \div 1000)
    \o RomanDigit((n \div 100) % 10, <<"C">>, <<"D">>, <<"M">>)
    \o RomanDigit((n \div 10) % 10, <<"X">>, <<"L">>, <<"C">>)
    \o RomanDigit(n % 10, <<"I">>, <<"V">>, <<"X">>)

SymbolValue(c) ==
    CASE c = "I" -> 1 [] c = "V" -> 5 [] c = "X" -> 10 [] c = "L" -> 50
      [] c = "C" -> 100 [] c = "D" -> 500 [] OTHER -> 1000

\* the number a numeral stands for: a symbol before a greater one is
\* subtracted
RECURSIVE RomanDecode(_)
RomanDecode(r) ==
    IF r = <<>> THEN 0
    ELSE IF Len(r) >= 2 /\ SymbolValue(r[1]) < SymbolValue(r[2])
    THEN RomanDecode(Tail(r)) - SymbolValue(r[1])
    ELSE RomanDecode(Tail(r)) + SymbolValue(r[1])

\* the loop of int_to_roman ends inside the table on every n up to MaxRoman
\* with the standard numeral, which stands for n and for no other number
RomanTableOk ==
    \A n \in 1..MaxRoman :
      LET r == RomanLoop(n, 1, <<>>)
      IN  /\ ~r.raised
          /\ r.roman = int_to_roman(n)
          /\ r.roman = StdRoman(n)
          /\ RomanDecode(r.roman) = n

\* the level-1 records of the part zone numbered so far
PartsDone == {i \in Processed : all_raw_items[i].level = 1 /\ all_raw_items[i].zone_type = ZPart}

\* C22: int_to_roman ends without reading past its table and gives the
\* standard subtractive numeral, from which the number can be read back, so
\* that different numbers have different numerals; the k-th part heading of
\* a run has the anchor part- and the lowercase numeral of k, and no two
\* part headings have the same anchor.
C22_StandardRoman ==
    /\ RomanTableOk
    /\ int_to_roman(1) = <<"I">> /\ int_to_roman(4) = <<"I","V">>
    /\ int_to_roman(9) = <<"I","X">> /\ int_to_roman(40) = <<"X","L">>
    /\ int_to_roman(90) = <<"X","C">>
    /\ int_to_roman(1994) = <<"M","C","M","X","C","I","V">>
    /\ \A i \in PartsDone :
         /\ all_raw_items[i].anchor_id =
              <<"p","a","r","t","-">> \o Lower(StdRoman(ZoneRank(i)))
         /\ \A j \in PartsDone :
              i # j => all_raw_items[i].anchor_id # all_raw_items[j].anchor_id

\* C22 witness: a run has numbered nine part headings, the fourth as part-iv
\* and the ninth as part-ix
C22_Witness ==
    /\ pc = "done"
    /\ Cardinality(PartsDone) >= 9
    /\ all_raw_items[4].anchor_id = <<"p","a","r","t","-","i","v">>
    /\ all_raw_items[9].anchor_id = <<"p","a","r","t","-","i","x">>

-----------------------------------------------------------------------------
(* Slugs *)

TxtTocItemSlug == <<"t","o","c","-","i","t","e","m">>

\* the maximal runs of characters of [a-z0-9] in s; cur is the run being read
RECURSIVE SlugWords(_, _)
SlugWords(s, cur) ==
    IF s = <<>> THEN (IF cur = <<>> THEN <<>> ELSE <<cur>>)
    ELSE IF s[1] \in Range(LowerAlpha) \cup Range(Digits)
    THEN SlugWords(Tail(s), Append(cur, s[1]))
    ELSE (IF cur = <<>> THEN <<>> ELSE <<cur>>) \o SlugWords(Tail(s), <<>>)

\* the frontmatter and backmatter records numbered so far
SlugsDone ==
    {i \in Processed : all_raw_items[i].level = 1 /\ all_raw_items[i].zone_type \in {ZFront, ZBack}}

\* the anchor of record i after its prefix fron- or back-
SlugOf(i) == SubSeq(all_raw_items[i].anchor_id, 6, Len(all_raw_items[i].anchor_id))

\* the slug of record i is the runs of [a-z0-9] of the lowercased text joined
\* by single hyphens, toc-item when there is no run; it is not empty, does
\* not start or end with a hyphen and has no two hyphens in a row
SlugShape(i) ==
    LET words == SlugWords(Lower(all_raw_items[i].raw_text), <<>>)
        slug == SlugOf(i)
    IN  /\ SubSeq(all_raw_items[i].anchor_id, 1, 5)
             = SubSeq(all_raw_items[i].zone_type, 1, 4) \o <<"-">>
        /\ slug = IF words = <<>> THEN TxtTocItemSlug ELSE Join(<<"-">>, words)
        /\ slug # <<>>
        /\ slug[1] # "-" /\ slug[Len(slug)] # "-"
        /\ \A k \in 1..(Len(slug) - 1) : ~(slug[k] = "-" /\ slug[k + 1] = "-")

-----------------------------------------------------------------------------
(* Attribute tests *)

\* the value of an attribute as the tests read it: the values of a
\* multi-valued attribute joined with spaces, the empty string when missing
JoinedValue(attrs, key) ==
    IF key \notin DOMAIN attrs THEN <<>>
    ELSE IF attrs[key].multi THEN Join(<<" ">>, attrs[key].v)
    ELSE attrs[key].v[1]

\* an expected value that starts with ^, ends with $ or contains .*
PatternStyle(x) ==
    /\ x # <<>>
    /\ \/ x[1] = "^"
       \/ x[Len(x)] = "$"
       \/ \E k \in 1..(Len(x) - 1) : x[k] = "." /\ x[k + 1] = "*"

\* every required key passes its test
RequiredHolds(attrs, required) ==
    \A key \in DOMAIN required :
      IF PatternStyle(required[key])
      THEN ~ReError(required[key]) /\ ReSearch(required[key], JoinedValue(attrs, key))
      ELSE Contains(JoinedValue(attrs, key), required[key])

\* the scan of a document of one div under one rule for div is over
DivScanned ==
    /\ pc = "check"
    /\ Len(rules) = 1
    /\ rules[1].element = Div
    /\ Len(file_soups[1].soup) = 1
    /\ file_soups[1].soup[1].name = Div

\* C24: the element is matched exactly when every key of the rule's required
\* attributes passes its test, as a search pattern or as a substring, on the
\* attribute's value, joined with spaces when multi-valued and empty when
\* missing.
C24_AttrsMatch ==
    DivScanned =>
      (all_raw_items # <<>>
         <=> RequiredHolds(file_soups[1].soup[1].attrs, rules[1].parent_attrs))

\* C24: a div with the multi-valued attribute accesskey of the values c6 and
\* c5 was not matched by the rule that requires accesskey to contain "c6 c5"
C24_Reached ==
    /\ DivScanned
    /\ "accesskey" \in DOMAIN rules[1].parent_attrs
    /\ "accesskey" \in DOMAIN file_soups[1].soup[1].attrs
    /\ all_raw_items = <<>>

-----------------------------------------------------------------------------
(* Counter parents and anchors *)

\* the anchors of the level-1 records numbered so far
LevelOneAnchors ==
    {all_raw_items[p].anchor_id : p \in {q \in Processed : all_raw_items[q].level = 1}}

\* the levels of the records found
RawLevels == [i \in DOMAIN all_raw_items |-> all_raw_items[i].level]

\* C25: every key of the section-counter map is the anchor of a level-1
\* heading numbered before; the anchor of a heading of level 2 or more is
\* built on the anchor of the nearest level-1 heading before it, and its
\* number counts the headings of its class since that heading, whatever lies
\* between: 1,2,3,2,3 under chapter 1 gives 1-1, 1-s1, 1-2, 1-s2.
C25_CounterParentIsLevelOne ==
    /\ DOMAIN context.section_counters \subseteq LevelOneAnchors
    /\ \A i \in Processed :
         LET item == all_raw_items[i]
             p == NearestL1(i)
         IN  item.level >= 2 /\ p # 0 =>
               /\ all_raw_items[p].anchor_id \in DOMAIN context.section_counters
               /\ item.anchor_id =
                    all_raw_items[p].anchor_id \o <<"-">> \o SectionMark(item.level)
                       \o Dec(CountUnder(p, i, SectionClass(item.level)))
    /\ RawLevels = <<1, 2, 3, 2, 3>> /\ idx = 6 /\ runs = 1 =>
         [i \in 1..5 |-> all_raw_items[i].anchor_id]
            = << <<"1">>, <<"1","-","1">>, <<"1","-","s","1">>,
                 <<"1","-","2">>, <<"1","-","s","2">> >>

\* C25 witness: the headings of the levels 1,2,3,2,3 have been numbered; the
\* only key of the counter map is the chapter's anchor
C25_Witness ==
    /\ RawLevels = <<1, 2, 3, 2, 3>>
    /\ idx = 6
    /\ all_raw_items[5].anchor_id = <<"1","-","s","2">>
    /\ DOMAIN context.section_counters = {<<"1">>}

\* C26: the anchors given to the headings of a run are pairwise different.
C26_AnchorsDistinct ==
    \A i, j \in Processed :
      /\ i # j
      /\ all_raw_items[i].anchor_id # None
      /\ all_raw_items[j].anchor_id # None
      => all_raw_items[i].anchor_id # all_raw_items[j].anchor_id

\* C26: two frontmatter headings of the same text in one document have been
\* given the same anchor
C26_Reached ==
    /\ pc = "save"
    /\ \E i, j \in Processed :
         /\ i < j
         /\ all_raw_items[i].zone_type = ZFront
         /\ all_raw_items[j].zone_type = ZFront
         /\ all_raw_items[i].file_name = all_raw_items[j].file_name
         /\ all_raw_items[i].anchor_id = <<"f","r","o","n","-","p","r","e">>
         /\ all_raw_items[j].anchor_id = <<"f","r","o","n","-","p","r","e">>

-----------------------------------------------------------------------------
(* Link targets *)

\* the id attribute, in the package, of the element a record was made from
IdAt(elem) ==
    Get(NodeAt(bkContent[elem[1]], elem[2]).attrs, "id", StrVal(<<>>))

\* the run is over and has rendered both artifacts
Rendered == pc = "done" /\ HtmlBuilt

\* C27: after a run, every entry of the navigation document and of the HTML
\* page but the synthetic one points to file#anchor of a numbered heading,
\* and the element of that heading carries the anchor as its id in the
\* document the package holds; the element of a heading that was not
\* numbered has the id it had.
C27_TargetsExist ==
    Rendered =>
      /\ Len(ncx.navMap) = Len(Anchored) + 1
      /\ Len(Links) = Len(Anchored)
      /\ \A k \in DOMAIN Anchored :
           LET target == Anchored[k].file_name \o <<"#">> \o Anchored[k].anchor_id
           IN  /\ ncx.navMap[k + 1].src = target
               /\ Links[k].href = target
               /\ IdAt(Anchored[k].elem) = StrVal(Anchored[k].anchor_id)
      /\ \A i \in DOMAIN all_raw_items :
           all_raw_items[i].anchor_id = None =>
             IdAt(all_raw_items[i].elem) = StrVal(TxtOld)

\* C27: a second run has numbered the heading of the TOC page and written a
\* new TOC page, whose heading has the id toc again
C27_Reached ==
    /\ Rendered
    /\ runs = 2
    /\ \E k \in DOMAIN Anchored :
         /\ Anchored[k].file_name = HrefToc
         /\ Links[k].href = HrefToc \o <<"#">> \o Anchored[k].anchor_id
         /\ IdAt(Anchored[k].elem) = StrVal(<<"t","o","c">>)
         /\ Anchored[k].anchor_id # <<"t","o","c">>

-----------------------------------------------------------------------------
(* A run that counted nothing *)

\* the run has returned (None, 0)
ZeroCountReturn == pc = "done" /\ ret = ReturnPair("None", 0)

\* C28: a run that returns no error and the count zero has issued no write to
\* the host package: no document rewritten, no navigation document, no TOC
\* page, no spine entry; so also when every matched heading is an orphan of
\* level 2 or more.
C28_ZeroCountWritesNothing ==
    ZeroCountReturn => calls = <<>>

\* C28: a run whose only matched heading is an orphan of level 2 has
\* returned (None, 0) after rewriting the document, adding the navigation
\* document and the TOC page and inserting the spine entry
C28_Reached ==
    /\ ZeroCountReturn
    /\ Len(all_raw_items) = 1
    /\ Orphan(1)
    /\ all_raw_items[1].anchor_id = None
    /\ calls = <<Call("writefile", "d1"), Call("addfile", "ncx"),
                 Call("addfile", "toc"), Call("spine_insert_before", "toc")>>

-----------------------------------------------------------------------------
(* Errors before the first write *)

\* the places of a run before line 402
BeforeSave == {"compile", "spine", "scan", "check", "number"}

\* the run has returned an exception raised before every heading was
\* numbered
RaisedEarly ==
    /\ pc = "done"
    /\ ret.kind = "pair"
    /\ ret.err # "None"
    /\ idx <= Len(all_raw_items)

\* C29: no write is issued and the reading order, the manifest and every
\* resource of the host package stay as they are while the rules are
\* compiled, the documents scanned and the headings numbered; an exception
\* raised there ends the run with the error returned and still no write.
C29_NoWriteBeforeNumbered ==
    /\ [](pc \in BeforeSave => calls = <<>>)
    /\ [][(pc \in BeforeSave) =>
            UNCHANGED <<bkSpine, bkManifest, bkContent>>]_vars
    /\ [][(pc \in {"compile", "spine", "number"}) /\ pc' = "done" =>
            /\ ret'.kind = "pair" /\ ret'.err # "None"
            /\ calls' = <<>>]_vars
    /\ [](RaisedEarly => calls = <<>>)

\* C29 witness: the first heading was numbered and stamped in memory, the
\* second raised, and the run has returned the error with the document of
\* the host package still without the anchor
C29_Witness ==
    /\ RaisedEarly
    /\ runs = 1
    /\ idx = 2
    /\ all_raw_items[1].anchor_id # None
    /\ \E f \in DOMAIN file_soups :
         file_soups[f].soup # bkContent[file_soups[f].fname]
    /\ IdAt(all_raw_items[1].elem) # StrVal(all_raw_items[1].anchor_id)

-----------------------------------------------------------------------------
(* The value returned after the last write *)

\* the run has numbered a heading and issued every write, the spine entry
\* included
AllWritten ==
    /\ pc = "done"
    /\ idx > Len(all_raw_items)
    /\ occurrences >= 1
    /\ toc_id # ""
    /\ \E c \in DOMAIN calls : calls[c].op = "spine_insert_before"

\* C30: a run that numbered headings and wrote the documents, the navigation
\* document, the TOC page and the spine entry returns (None, count), whatever
\* form the rules the matcher accepted have.
C30_WrittenRunReturnsNone ==
    AllWritten => ret = ReturnPair("None", occurrences)

\* C30: a run under a rule in the legacy form (class, no parent_attrs) has
\* numbered a heading, issued every write and returned KeyError
C30_Reached ==
    /\ AllWritten
    /\ ret = ReturnPair("KeyError", 1)
    /\ \E i \in DOMAIN rules : "parent_attrs" \notin DOMAIN rules[i]
    /\ calls = <<Call("writefile", "d1"), Call("addfile", "ncx"),
                 Call("addfile", "toc"), Call("spine_insert_before", "toc")>>

=============================================================================
